---- MODULE Spec2Model ----
(***************************************************************************)
(* Model of the SRT session (conn) of the media server: the session        *)
(* goroutine conn.run, the listener that calls conn.new / conn.setConn,    *)
(* the publish-reader goroutine (runPublishReader) and the async writer    *)
(* worker of a reading session.                                            *)
(*                                                                         *)
(* Channel semantics.  All channels of the session are unbuffered, so a    *)
(* send and its receive are one joint action.  A goroutine parked in a     *)
(* select is claimed by the first event that occurs: closing ctx.Done      *)
(* claims every goroutine parked in a select that includes it.  For the    *)
(* selects whose peer also selects on ctx.Done (chNew, chSetConn) this     *)
(* means that no rendezvous happens once the context is cancelled; for     *)
(* the selects whose peer is a plain send (readerErr, writer.Error()) the  *)
(* parked state is explicit (pubParked, readParked) and Close moves the    *)
(* parked session to its ctx.Done branch.                                  *)
(***************************************************************************)
EXTENDS Naturals, Integers, Sequences, FiniteSets, TLC

\* ------------------------------------------------------------- bounds ----
MaxClose == 2
MaxUnits == 2

\* ---------------------------------------------------------- constants ----
\* pauseAfterAuthError = 2 * time.Second, counted in seconds
pauseAfterAuthError == 2

\* connState: zero value (idle), connStateRead, connStatePublish
connStateIdle == 0
connStateRead == 1
connStatePublish == 2

CallNames ==
    {"AddPublisher", "AddReader", "RemovePublisher", "RemoveReader",
     "StartPublisher", "closeConn", "wgDone", "onConnect", "onDisconnect",
     "onRead", "onUnread", "sconnClose", "streamRemoveReader", "writerStart"}

VARIABLES
    pc,             \* position of the session goroutine (conn.run)
    lpc,            \* position of the listener (caller of new / setConn)
    rpc,            \* position of the publish-reader goroutine
    wpc,            \* position of the async writer worker
    cancelled,      \* c.ctx is done
    cancelledAt,    \* position of the session when Close() cancelled c.ctx
    nClose,         \* number of conn.Close() calls so far
    connReq,        \* c.connReq: stream ID mode, encryption, passphrase
    conf,           \* path.SafeConf(): SRTPublishPassphrase, SRTReadPassphrase
    answerSent,     \* first result of runInner2
    err,            \* second result of runInner2 / runInner
    resAnswers,     \* values sent on req.res, in order
    newResult,      \* value returned by conn.new to the listener
    penaltyElapsed, \* seconds elapsed of time.After(pauseAfterAuthError), -1 = not armed
    calls,          \* number of calls of each collaborator operation
    addResult,      \* outcome of AddPublisher / AddReader
    spResult,       \* outcome of path.StartPublisher
    unitsWritten,   \* units written to the stream by r.Read()
    pathPublisher,  \* publisher installed on the path
    pathPubBefore,  \* publisher of the path when the session was created
    pathReaders,    \* readers registered on the path
    streamReaders,  \* readers registered on the stream
    state,          \* c.state
    pathName,       \* c.pathName
    query,          \* c.query
    sconn,          \* c.sconn
    sconnStatus,    \* the srt.Conn received over chSetConn: none, open, closed
    readerErrVal,   \* value the publish reader sends on readerErr
    wErr,           \* value the writer worker sends on writer.Error()
    bufferClosed    \* writer.Stop() has closed the writer's buffer

connVars == <<pc, lpc, rpc, wpc, cancelled, cancelledAt, nClose, connReq, conf,
          answerSent, err, resAnswers, newResult, penaltyElapsed, calls,
          addResult, spResult, unitsWritten, pathPublisher, pathPubBefore,
              pathReaders, streamReaders, state, pathName, query, sconn,
              sconnStatus, readerErrVal, wErr, bufferClosed>>

\* ---------------------------------------- stream (non-RTSP readers map) ----
\* bounds: data items written by the single writer
MaxWrites == 3

\* readers of the stream: two non-RTSP readers and one RTSP session
NonRTSP == {"r1", "r2"}
RTSPSessions == {"s1"}
StreamReaderIds == NonRTSP \cup RTSPSessions

VARIABLES
    ma,             \* m.ma: the set of keys of the map
    maIsNil,        \* m.ma == nil (after close)
    mutex,          \* m.mutex: w = write-locked, r = number of read locks
    rdpc,           \* position of each reader's owner (readerAdd / readerRemove)
    swpc,           \* position of the writer (stream.writeData)
    clpc,           \* position of the caller of stream.close
    data,           \* number of the data item of the current writeData call
    wDone,          \* number of the last data item whose writeData returned
    hasNonRTSP,     \* hasReaders() as passed to onData for the current item
    rtspPackets,    \* data items forwarded to rtspStream.WritePacketRTP
    snap,           \* m.ma when the delivery loop took the read lock
    snaps,          \* snap of every writeData call, by item
    visited,        \* readers the range loop has visited
    recv,           \* data items passed to onReaderData, per reader, in order
    addedAt,        \* value of data when add(r) returned, -1 before
    removedAt,      \* value of data when remove(r) returned, -1 before
    panicked        \* the process has panicked (write to a nil map)

streamVars == <<ma, maIsNil, mutex, rdpc, swpc, clpc, data, wDone,
                hasNonRTSP, rtspPackets, snap, snaps, visited, recv,
                addedAt, removedAt, panicked>>

\* state of the stream after newStream, before any call
StreamInit ==
    /\ ma = {}
    /\ maIsNil = FALSE
    /\ mutex = [w |-> FALSE, r |-> 0]
    /\ rdpc = [r \in StreamReaderIds |-> "idle"]
    /\ swpc = "idle"
    /\ clpc = "idle"
    /\ data = 0
    /\ wDone = 0
    /\ hasNonRTSP = FALSE
    /\ rtspPackets = 0
    /\ snap = {}
    /\ snaps = <<>>
    /\ visited = {}
    /\ recv = [r \in NonRTSP |-> <<>>]
    /\ addedAt = [r \in NonRTSP |-> -1]
    /\ removedAt = [r \in NonRTSP |-> -1]
    /\ panicked = FALSE

\* ------------------------------------------ static source (hlsSource) ----
\* bounds: attempts (upstream clients created), frames of one client
MaxAttempts == 3
MaxFrames == 2

\* retryPause, in ticks of the clock
RetryPause == 2

VARIABLES
    hpc,            \* position of the supervisor goroutine (hlsSource.run)
    hcancelled,     \* s.ctx is done
    hCloseCalled,   \* hlsSource.Close() was called (or the parent context cancelled)
    nAttempts,      \* number of hls.NewClient calls so far
    cpc,            \* position of the upstream client of the current attempt
    cClosed,        \* c.Close() was called on the current client
    waitBuf,        \* the channel returned by c.Wait(): empty or holding the result
    retryElapsed,   \* ticks elapsed of time.After(retryPause), -1 = not armed
    hstream,        \* the local variable stream of runInner is not nil
    nSetReady,      \* successful OnSourceStaticSetReady calls
    nSetNotReady,   \* OnSourceStaticSetNotReady calls
    framesIn,       \* onFrame calls of the current client
    framesFwd,      \* frames passed to stream.onFrame
    hObserved,      \* attempts and client position when ctx.Done was taken,
                    \* and client position when Close() was called
    hWgDone         \* number of wg.Done calls

hlsVars == <<hpc, hcancelled, hCloseCalled, nAttempts, cpc, cClosed, waitBuf,
             retryElapsed, hstream, nSetReady, nSetNotReady, framesIn,
             framesFwd, hObserved, hWgDone>>

\* state after newHLSSource: context created, wg.Add(1), run started
HlsInit ==
    /\ hpc = "runInner"
    /\ hcancelled = FALSE
    /\ hCloseCalled = FALSE
    /\ nAttempts = 0
    /\ cpc = "none"
    /\ cClosed = FALSE
    /\ waitBuf = "empty"
    /\ retryElapsed = -1
    /\ hstream = FALSE
    /\ nSetReady = 0
    /\ nSetNotReady = 0
    /\ framesIn = 0
    /\ framesFwd = 0
    /\ hObserved = [attempts |-> -1, client |-> "none", atClose |-> "none"]
    /\ hWgDone = 0

\* ----------------------------------------------------- recorder agent ----
\* bounds: units written to the stream while the recorder exists
MaxRecUnits == 4

\* SegmentDuration and restartPause, in units of PTS and ticks of the clock
SegmentDuration == 1
restartPause == 1

VARIABLES
    rcpc,           \* state of the agent: running, pause, closed, killed
    recGen,         \* number of initializations of the segmenter so far
    segOpen,        \* the open segment, 0 = none
    nSegs,          \* number of segments created so far
    segStart,       \* PTS of the first unit of the open segment
    recPTS,         \* PTS of the last unit written to the stream
    segEvents,      \* OnSegmentCreate / OnSegmentComplete calls, in order
    segFile,        \* the file of every segment: partial or final name
    unitLog,        \* every unit written: generation, kind, segment it went to
    restartElapsed  \* ticks elapsed of restartPause, -1 = not armed

recVars == <<rcpc, recGen, segOpen, nSegs, segStart, recPTS, segEvents,
             segFile, unitLog, restartElapsed>>

\* state after Agent.Initialize()
RecInit ==
    /\ rcpc = "running"
    /\ recGen = 1
    /\ segOpen = 0
    /\ nSegs = 0
    /\ segStart = 0
    /\ recPTS = 0
    /\ segEvents = <<>>
    /\ segFile = <<>>
    /\ unitLog = <<>>
    /\ restartElapsed = -1

\* variables of the components other than the session
extVars == <<streamVars, hlsVars, recVars>>

vars == <<connVars, extVars>>

\* groups used in UNCHANGED
inputVars  == <<connReq, conf, pathPubBefore>>
ctxVars    == <<cancelled, cancelledAt, nClose>>
otherPcs   == <<lpc, rpc, wpc>>
resultVars == <<answerSent, err>>
pathVars   == <<pathPublisher, pathReaders, streamReaders>>
fieldVars  == <<state, pathName, query, sconn>>
pubVars    == <<spResult, unitsWritten, readerErrVal>>
wrVars     == <<wErr, bufferClosed>>

Inc(c) == [calls EXCEPT ![c] = @ + 1]

\* ------------------------------------------------------------ helpers ----

\* mutant: the check does not require an encrypted request
srtCheckPassphrase_NoEncryption(cr, passphrase) ==
    IF passphrase = ""
      THEN "nil"
      ELSE IF cr.passphrase # passphrase
             THEN "errInvalidPassphrase"
             ELSE "nil"

\* srtCheckPassphrase(connReq, passphrase); SetPassphrase succeeds iff the
\* passphrase of the request equals the configured one.
srtCheckPassphrase(cr, passphrase) ==
    IF passphrase = ""
      THEN "nil"
      ELSE IF ~cr.encrypted
             THEN "errNotEncrypted"
             ELSE IF cr.passphrase # passphrase
                    THEN "errInvalidPassphrase"
                    ELSE "nil"

\* mutant: the running selects have no ctx.Done case
CancelWake_NoSelect(p) == p

\* The ctx.Done branch of the select in which the session is parked, for the
\* selects whose other case is fed by a plain send.
CancelWake(p) ==
    IF p = "pubParked" THEN "pubCancel"
    ELSE IF p = "readParked" THEN "readCancel"
    ELSE p

\* --------------------------------------------------------------- Init ----
Init ==
    /\ pc = "start"
    /\ lpc = "lIdle"
    /\ rpc = "rIdle"
    /\ wpc = "wIdle"
    /\ cancelled = FALSE
    /\ cancelledAt = "none"
    /\ nClose = 0
    /\ connReq \in [mode : {"invalid", "publish", "read"},
                    encrypted : BOOLEAN,
                    passphrase : {"pw", "bad"}]
    /\ conf \in [SRTPublishPassphrase : {"", "pw"},
                 SRTReadPassphrase : {"", "pw"}]
    /\ answerSent = FALSE
    /\ err = "nil"
    /\ resAnswers = <<>>
    /\ newResult = "none"
    /\ penaltyElapsed = -1
    /\ calls = [c \in CallNames |-> 0]
    /\ addResult = "none"
    /\ spResult = "none"
    /\ unitsWritten = 0
    /\ pathPubBefore \in {"none", "other"}
    /\ pathPublisher = pathPubBefore
    /\ pathReaders \in {{}, {"other"}}
    /\ streamReaders = pathReaders
    /\ state = connStateIdle
    /\ pathName = ""
    /\ query = ""
    /\ sconn = "nil"
    /\ sconnStatus = "none"
    /\ readerErrVal = "nil"
    /\ wErr = "nil"
    /\ bufferClosed = FALSE
    /\ StreamInit
    /\ HlsInit
    /\ RecInit


\* ------------------------------------------------------ environment ----

\* mutant: Close tears the session down itself (calls parent.closeConn)
Close_Teardown ==
    /\ nClose < MaxClose
    /\ nClose' = nClose + 1
    /\ cancelled' = TRUE
    /\ cancelledAt' = IF cancelled THEN cancelledAt ELSE pc
    /\ pc' = IF cancelled THEN pc ELSE CancelWake(pc)
    /\ calls' = Inc("closeConn")
    /\ UNCHANGED <<otherPcs, inputVars, extVars, resultVars, resAnswers, newResult,
                   penaltyElapsed, addResult, pubVars, pathVars,
                   fieldVars, sconnStatus, wrVars>>

\* conn.Close(): c.ctxCancel().  Cancelling the parent context has the same
\* effect on c.ctx.  Closing ctx.Done claims a session parked in a select.
Close ==
    /\ nClose < MaxClose
    /\ nClose' = nClose + 1
    /\ cancelled' = TRUE
    /\ cancelledAt' = IF cancelled THEN cancelledAt ELSE pc
    /\ pc' = IF cancelled THEN pc ELSE CancelWake(pc)
    /\ UNCHANGED <<otherPcs, inputVars, extVars, resultVars, resAnswers, newResult,
                   penaltyElapsed, calls, addResult, pubVars, pathVars,
                   fieldVars, sconnStatus, wrVars>>

\* mutant: the session does not wait for the timer
TimerFired_NoWait == penaltyElapsed >= 0

\* time.After(pauseAfterAuthError) has fired
TimerFired == penaltyElapsed >= pauseAfterAuthError

\* one second passes while the penalty timer is armed
Tick ==
    /\ pc \in {"pubAuthSleep", "readAuthSleep"}
    /\ penaltyElapsed >= 0
    /\ ~TimerFired
    /\ penaltyElapsed' = penaltyElapsed + 1
    /\ UNCHANGED <<pc, otherPcs, ctxVars, inputVars, extVars, resultVars, resAnswers,
                   newResult, calls, addResult, pubVars, pathVars, fieldVars,
                   sconnStatus, wrVars>>

\* the listener calls conn.new(req) and reaches its select
new_call ==
    /\ lpc = "lIdle"
    /\ lpc' = "lNewSel"
    /\ UNCHANGED <<pc, rpc, wpc, ctxVars, inputVars, extVars, resultVars, resAnswers,
                   newResult, penaltyElapsed, calls, addResult, pubVars,
                   pathVars, fieldVars, sconnStatus, wrVars>>

\* conn.new: case <-c.ctx.Done(): return nil
new_ctxDone ==
    /\ lpc = "lNewSel"
    /\ cancelled
    /\ lpc' = "lDone"
    /\ newResult' = "nil"
    /\ UNCHANGED <<pc, rpc, wpc, ctxVars, inputVars, extVars, resultVars, resAnswers,
                   penaltyElapsed, calls, addResult, pubVars, pathVars,
                   fieldVars, sconnStatus, wrVars>>

\* the listener, having got the conn from new(), either accepts the SRT
\* connection and calls setConn, or never calls it (failed handshake)
setConn_call ==
    /\ lpc = "lAccept"
    /\ lpc' \in {"lSetConnSel", "lDone"}
    /\ UNCHANGED <<pc, rpc, wpc, ctxVars, inputVars, extVars, resultVars, resAnswers,
                   newResult, penaltyElapsed, calls, addResult, pubVars,
                   pathVars, fieldVars, sconnStatus, wrVars>>

\* conn.setConn: case <-c.ctx.Done()
setConn_ctxDone ==
    /\ lpc = "lSetConnSel"
    /\ cancelled
    /\ lpc' = "lDone"
    /\ UNCHANGED <<pc, rpc, wpc, ctxVars, inputVars, extVars, resultVars, resAnswers,
                   newResult, penaltyElapsed, calls, addResult, pubVars,
                   pathVars, fieldVars, sconnStatus, wrVars>>

\* ------------------------------------------------- conn.run, runInner ----

\* run: hooks.OnConnect(...)
run_OnConnect ==
    /\ pc = "start"
    /\ calls' = Inc("onConnect")
    /\ pc' = "selNew"
    /\ UNCHANGED <<otherPcs, ctxVars, inputVars, extVars, resultVars, resAnswers,
                   newResult, penaltyElapsed, addResult, pubVars, pathVars,
                   fieldVars, sconnStatus, wrVars>>

\* runInner: case req = <-c.chNew, together with new: case c.chNew <- req
runInner_recvNew ==
    /\ pc = "selNew"
    /\ lpc = "lNewSel"
    /\ ~cancelled
    /\ pc' = "inner2"
    /\ lpc' = "lRecvRes"
    /\ UNCHANGED <<rpc, wpc, ctxVars, inputVars, extVars, resultVars, resAnswers,
                   newResult, penaltyElapsed, calls, addResult, pubVars,
                   pathVars, fieldVars, sconnStatus, wrVars>>

\* runInner: case <-c.ctx.Done(): return errors.New("terminated")
runInner_ctxDone ==
    /\ pc = "selNew"
    /\ cancelled
    /\ err' = "terminated"
    /\ pc' = "afterInner"
    /\ UNCHANGED <<otherPcs, ctxVars, inputVars, extVars, answerSent, resAnswers,
                   newResult, penaltyElapsed, calls, addResult, pubVars,
                   pathVars, fieldVars, sconnStatus, wrVars>>

\* runInner2: streamID.unmarshal and dispatch on the mode
runInner2 ==
    /\ pc = "inner2"
    /\ IF connReq.mode = "invalid"
         THEN /\ err' = "invalidStreamID"
              /\ answerSent' = FALSE
              /\ pc' = "answer"
         ELSE /\ pc' = IF connReq.mode = "publish" THEN "addPublisher"
                                                   ELSE "addReader"
              /\ UNCHANGED resultVars
    /\ UNCHANGED <<otherPcs, ctxVars, inputVars, extVars, resAnswers, newResult,
                   penaltyElapsed, calls, addResult, pubVars, pathVars,
                   fieldVars, sconnStatus, wrVars>>

\* mutant: runInner returns without sending nil on req.res
runInner_answer_NoNil ==
    /\ pc = "answer"
    /\ pc' = "afterInner"
    /\ UNCHANGED <<lpc, resAnswers, newResult, rpc, wpc, ctxVars, inputVars,
                   extVars, resultVars, penaltyElapsed, calls, addResult,
                   pubVars, pathVars, fieldVars, sconnStatus, wrVars>>

\* runInner: if !answerSent { req.res <- nil }, received by new: <-req.res
runInner_answer ==
    /\ pc = "answer"
    /\ IF answerSent
         THEN UNCHANGED <<lpc, resAnswers, newResult>>
         ELSE /\ lpc = "lRecvRes"
              /\ resAnswers' = Append(resAnswers, "nil")
              /\ newResult' = "nil"
              /\ lpc' = "lDone"
    /\ pc' = "afterInner"
    /\ UNCHANGED <<rpc, wpc, ctxVars, inputVars, extVars, resultVars, penaltyElapsed,
                   calls, addResult, pubVars, pathVars, fieldVars,
                   sconnStatus, wrVars>>

\* run: c.ctxCancel()
run_ctxCancel ==
    /\ pc = "afterInner"
    /\ cancelled' = TRUE
    /\ pc' = "closeConn"
    /\ UNCHANGED <<otherPcs, cancelledAt, nClose, inputVars, extVars, resultVars,
                   resAnswers, newResult, penaltyElapsed, calls, addResult,
                   pubVars, pathVars, fieldVars, sconnStatus, wrVars>>

\* run: c.parent.closeConn(c)
run_closeConn ==
    /\ pc = "closeConn"
    /\ calls' = Inc("closeConn")
    /\ pc' = "onDisconnect"
    /\ UNCHANGED <<otherPcs, ctxVars, inputVars, extVars, resultVars, resAnswers,
                   newResult, penaltyElapsed, addResult, pubVars, pathVars,
                   fieldVars, sconnStatus, wrVars>>

\* run: defer onDisconnectHook()
run_onDisconnectHook ==
    /\ pc = "onDisconnect"
    /\ calls' = Inc("onDisconnect")
    /\ pc' = "wgDone"
    /\ UNCHANGED <<otherPcs, ctxVars, inputVars, extVars, resultVars, resAnswers,
                   newResult, penaltyElapsed, addResult, pubVars, pathVars,
                   fieldVars, sconnStatus, wrVars>>

\* run: defer c.wg.Done()
run_wgDone ==
    /\ pc = "wgDone"
    /\ calls' = Inc("wgDone")
    /\ pc' = "done"
    /\ UNCHANGED <<otherPcs, ctxVars, inputVars, extVars, resultVars, resAnswers,
                   newResult, penaltyElapsed, addResult, pubVars, pathVars,
                   fieldVars, sconnStatus, wrVars>>

\* ------------------------------------------- exchangeRequestWithConn ----

\* req.res <- c, received by new: return <-req.res
exchange_send ==
    /\ pc = "exchSend"
    /\ lpc = "lRecvRes"
    /\ resAnswers' = Append(resAnswers, "conn")
    /\ newResult' = "conn"
    /\ lpc' = "lAccept"
    /\ pc' = "exchSel"
    /\ UNCHANGED <<rpc, wpc, ctxVars, inputVars, extVars, resultVars, penaltyElapsed,
                   calls, addResult, pubVars, pathVars, fieldVars,
                   sconnStatus, wrVars>>

\* case sconn := <-c.chSetConn, together with setConn: c.chSetConn <- sconn
exchange_recvSetConn ==
    /\ pc = "exchSel"
    /\ lpc = "lSetConnSel"
    /\ ~cancelled
    /\ sconnStatus' = "open"
    /\ lpc' = "lDone"
    /\ pc' = IF connReq.mode = "publish" THEN "pubSetState" ELSE "readSetState"
    /\ UNCHANGED <<rpc, wpc, ctxVars, inputVars, extVars, resultVars, resAnswers,
                   newResult, penaltyElapsed, calls, addResult, pubVars,
                   pathVars, fieldVars, wrVars>>

\* case <-c.ctx.Done(): return nil, errors.New("terminated"); the caller
\* returns true, err and its deferred Remove runs
exchange_ctxDone ==
    /\ pc = "exchSel"
    /\ cancelled
    /\ err' = "terminated"
    /\ answerSent' = TRUE
    /\ pc' = IF connReq.mode = "publish" THEN "pubRemove" ELSE "readRemove"
    /\ UNCHANGED <<otherPcs, ctxVars, inputVars, extVars, resAnswers, newResult,
                   penaltyElapsed, calls, addResult, pubVars, pathVars,
                   fieldVars, sconnStatus, wrVars>>

\* ------------------------------------------------------------- path ----

\* Path.addPublisher: the admitted author becomes the publisher of the path
\* (a publisher already there is replaced)
doAddPublisher(author, publisher) == author

\* Path.removePublisher: removes the author if it is the publisher
doRemovePublisher(author, publisher) ==
    IF publisher = author THEN "none" ELSE publisher

\* Path.addReader / Path.removeReader
doAddReader(author, readers) == readers \cup {author}

doRemoveReader(author, readers) == readers \ {author}

\* --------------------------------------------------------- runPublish ----

\* path, err := c.pathManager.AddPublisher(...)
runPublish_AddPublisher ==
    /\ pc = "addPublisher"
    /\ calls' = Inc("AddPublisher")
    /\ \E r \in {"ok", "auth", "other"} :
         /\ addResult' = r
         /\ IF r = "ok"
              THEN /\ pathPublisher' = doAddPublisher("self", pathPublisher)
                   /\ pc' = "pubPass"
                   /\ UNCHANGED <<resultVars, penaltyElapsed>>
              ELSE IF r = "auth"
                     THEN /\ penaltyElapsed' = 0
                          /\ pc' = "pubAuthSleep"
                          /\ UNCHANGED <<resultVars, pathPublisher>>
                     ELSE /\ err' = "addErr"
                          /\ answerSent' = FALSE
                          /\ pc' = "answer"
                          /\ UNCHANGED <<penaltyElapsed, pathPublisher>>
    /\ UNCHANGED <<otherPcs, ctxVars, inputVars, extVars, resAnswers, newResult,
                   pubVars, pathReaders, streamReaders, fieldVars,
                   sconnStatus, wrVars>>

\* <-time.After(pauseAfterAuthError); return false, terr
runPublish_authSleep ==
    /\ pc = "pubAuthSleep"
    /\ TimerFired
    /\ err' = "auth"
    /\ answerSent' = FALSE
    /\ pc' = "answer"
    /\ UNCHANGED <<otherPcs, ctxVars, inputVars, extVars, resAnswers, newResult,
                   penaltyElapsed, calls, addResult, pubVars, pathVars,
                   fieldVars, sconnStatus, wrVars>>

\* mutant: RemovePublisher is not deferred, the early return skips it
runPublish_checkPassphrase_NoDefer ==
    /\ pc = "pubPass"
    /\ LET e == srtCheckPassphrase(connReq, conf.SRTPublishPassphrase) IN
         IF e # "nil"
           THEN /\ err' = e
                /\ answerSent' = FALSE
                /\ pc' = "answer"
           ELSE /\ pc' = "exchSend"
                /\ UNCHANGED resultVars
    /\ UNCHANGED <<otherPcs, ctxVars, inputVars, extVars, resAnswers, newResult,
                   penaltyElapsed, calls, addResult, pubVars, pathVars,
                   fieldVars, sconnStatus, wrVars>>

\* err = srtCheckPassphrase(req.connReq, path.SafeConf().SRTPublishPassphrase)
runPublish_checkPassphrase ==
    /\ pc = "pubPass"
    /\ LET e == srtCheckPassphrase(connReq, conf.SRTPublishPassphrase) IN
         IF e # "nil"
           THEN /\ err' = e
                /\ answerSent' = FALSE
                /\ pc' = "pubRemove"
           ELSE /\ pc' = "exchSend"
                /\ UNCHANGED resultVars
    /\ UNCHANGED <<otherPcs, ctxVars, inputVars, extVars, resAnswers, newResult,
                   penaltyElapsed, calls, addResult, pubVars, pathVars,
                   fieldVars, sconnStatus, wrVars>>

\* mutant: the state is set without the connection
runPublish_setState_StateOnly ==
    /\ pc = "pubSetState"
    /\ state' = connStatePublish
    /\ pathName' = "path"
    /\ query' = "query"
    /\ pc' = "pubSpawn"
    /\ UNCHANGED <<sconn, otherPcs, ctxVars, inputVars, extVars, resultVars,
                   resAnswers, newResult, penaltyElapsed, calls, addResult,
                   pubVars, pathVars, sconnStatus, wrVars>>

\* c.mutex.Lock(); c.state = connStatePublish; ...; c.mutex.Unlock()
runPublish_setState ==
    /\ pc = "pubSetState"
    /\ state' = connStatePublish
    /\ pathName' = "path"
    /\ query' = "query"
    /\ sconn' = "sconn"
    /\ pc' = "pubSpawn"
    /\ UNCHANGED <<otherPcs, ctxVars, inputVars, extVars, resultVars, resAnswers,
                   newResult, penaltyElapsed, calls, addResult, pubVars,
                   pathVars, sconnStatus, wrVars>>

\* go func() { readerErr <- c.runPublishReader(sconn, path) }()
runPublish_go ==
    /\ pc = "pubSpawn"
    /\ rpc' = "rNewReader"
    /\ pc' = "pubSel"
    /\ UNCHANGED <<lpc, wpc, ctxVars, inputVars, extVars, resultVars, resAnswers,
                   newResult, penaltyElapsed, calls, addResult, pubVars,
                   pathVars, fieldVars, sconnStatus, wrVars>>

\* the session reaches select { case err := <-readerErr; case <-c.ctx.Done() }:
\* it takes a case that is ready, or parks
runPublish_select ==
    /\ pc = "pubSel"
    /\ \/ /\ rpc = "rSend"
          /\ err' = readerErrVal
          /\ rpc' = "rDone"
          /\ pc' = "pubGotErr"
       \/ /\ cancelled
          /\ pc' = "pubCancel"
          /\ UNCHANGED <<err, rpc>>
       \/ /\ ~cancelled
          /\ rpc # "rSend"
          /\ pc' = "pubParked"
          /\ UNCHANGED <<err, rpc>>
    /\ UNCHANGED <<lpc, wpc, ctxVars, inputVars, extVars, answerSent, resAnswers,
                   newResult, penaltyElapsed, calls, addResult, pubVars,
                   pathVars, fieldVars, sconnStatus, wrVars>>

\* case err := <-readerErr, taken by the parked session
runPublish_recvReaderErr ==
    /\ pc = "pubParked"
    /\ rpc = "rSend"
    /\ err' = readerErrVal
    /\ rpc' = "rDone"
    /\ pc' = "pubGotErr"
    /\ UNCHANGED <<lpc, wpc, ctxVars, inputVars, extVars, answerSent, resAnswers,
                   newResult, penaltyElapsed, calls, addResult, pubVars,
                   pathVars, fieldVars, sconnStatus, wrVars>>

\* case err := <-readerErr: sconn.Close(); return true, err
runPublish_readerErrClose ==
    /\ pc = "pubGotErr"
    /\ sconnStatus' = "closed"
    /\ calls' = Inc("sconnClose")
    /\ answerSent' = TRUE
    /\ pc' = "pubRemove"
    /\ UNCHANGED <<otherPcs, ctxVars, inputVars, extVars, err, resAnswers, newResult,
                   penaltyElapsed, addResult, pubVars, pathVars, fieldVars,
                   wrVars>>

\* mutant: the ctx.Done branch does not close the connection
runPublish_ctxDoneClose_NoClose ==
    /\ pc = "pubCancel"
    /\ pc' = "pubWaitReader"
    /\ UNCHANGED <<otherPcs, ctxVars, inputVars, extVars, resultVars, resAnswers,
                   newResult, penaltyElapsed, calls, addResult, pubVars,
                   pathVars, fieldVars, sconnStatus, wrVars>>

\* case <-c.ctx.Done(): sconn.Close()
runPublish_ctxDoneClose ==
    /\ pc = "pubCancel"
    /\ sconnStatus' = "closed"
    /\ calls' = Inc("sconnClose")
    /\ pc' = "pubWaitReader"
    /\ UNCHANGED <<otherPcs, ctxVars, inputVars, extVars, resultVars, resAnswers,
                   newResult, penaltyElapsed, addResult, pubVars, pathVars,
                   fieldVars, wrVars>>

\* mutant: the ctx.Done branch returns without receiving from readerErr
runPublish_waitReader_NoWait ==
    /\ pc = "pubWaitReader"
    /\ err' = "terminated"
    /\ answerSent' = TRUE
    /\ pc' = "pubRemove"
    /\ UNCHANGED <<rpc, lpc, wpc, ctxVars, inputVars, extVars, resAnswers,
                   newResult, penaltyElapsed, calls, addResult, pubVars,
                   pathVars, fieldVars, sconnStatus, wrVars>>

\* <-readerErr; return true, errors.New("terminated")
runPublish_waitReader ==
    /\ pc = "pubWaitReader"
    /\ rpc = "rSend"
    /\ rpc' = "rDone"
    /\ err' = "terminated"
    /\ answerSent' = TRUE
    /\ pc' = "pubRemove"
    /\ UNCHANGED <<lpc, wpc, ctxVars, inputVars, extVars, resAnswers, newResult,
                   penaltyElapsed, calls, addResult, pubVars, pathVars,
                   fieldVars, sconnStatus, wrVars>>

\* defer path.RemovePublisher(defs.PathRemovePublisherReq{Author: c})
runPublish_RemovePublisher ==
    /\ pc = "pubRemove"
    /\ calls' = Inc("RemovePublisher")
    /\ pathPublisher' = doRemovePublisher("self", pathPublisher)
    /\ pc' = "answer"
    /\ UNCHANGED <<otherPcs, ctxVars, inputVars, extVars, resultVars, resAnswers,
                   newResult, penaltyElapsed, addResult, pubVars,
                   pathReaders, streamReaders, fieldVars, sconnStatus, wrVars>>

\* --------------------------------------------------- runPublishReader ----

\* r, err := mcmpegts.NewReader(mcmpegts.NewBufferedReader(sconn)): reads
\* from the connection; a read from a closed connection fails
runPublishReader_NewReader ==
    /\ rpc = "rNewReader"
    /\ \/ /\ sconnStatus = "open"
          /\ rpc' = "rToStream"
          /\ UNCHANGED readerErrVal
       \/ /\ readerErrVal' = "readErr"
          /\ rpc' = "rSend"
    /\ UNCHANGED <<pc, lpc, wpc, ctxVars, inputVars, extVars, resultVars, resAnswers,
                   newResult, penaltyElapsed, calls, addResult, spResult,
                   unitsWritten, pathVars, fieldVars, sconnStatus, wrVars>>

\* mutant: the read loop is entered without calling StartPublisher
runPublishReader_ToStream_SkipStart ==
    /\ rpc = "rToStream"
    /\ \/ /\ rpc' = "rRead"
          /\ UNCHANGED readerErrVal
       \/ /\ readerErrVal' = "toStreamErr"
          /\ rpc' = "rSend"
    /\ UNCHANGED <<pc, lpc, wpc, ctxVars, inputVars, extVars, resultVars, resAnswers,
                   newResult, penaltyElapsed, calls, addResult, spResult,
                   unitsWritten, pathVars, fieldVars, sconnStatus, wrVars>>

\* medias, err := mpegts.ToStream(r, &stream)
runPublishReader_ToStream ==
    /\ rpc = "rToStream"
    /\ \/ /\ rpc' = "rStartPublisher"
          /\ UNCHANGED readerErrVal
       \/ /\ readerErrVal' = "toStreamErr"
          /\ rpc' = "rSend"
    /\ UNCHANGED <<pc, lpc, wpc, ctxVars, inputVars, extVars, resultVars, resAnswers,
                   newResult, penaltyElapsed, calls, addResult, spResult,
                   unitsWritten, pathVars, fieldVars, sconnStatus, wrVars>>

\* stream, err = path.StartPublisher(...)
runPublishReader_StartPublisher ==
    /\ rpc = "rStartPublisher"
    /\ calls' = Inc("StartPublisher")
    /\ \/ /\ spResult' = "ok"
          /\ rpc' = "rRead"
          /\ UNCHANGED readerErrVal
       \/ /\ spResult' = "fail"
          /\ readerErrVal' = "startPublisherErr"
          /\ rpc' = "rSend"
    /\ UNCHANGED <<pc, lpc, wpc, ctxVars, inputVars, extVars, resultVars, resAnswers,
                   newResult, penaltyElapsed, addResult, unitsWritten,
                   pathVars, fieldVars, sconnStatus, wrVars>>

\* for { err := r.Read() ... }: a successful Read decodes data of the
\* connection and writes a unit to the stream
runPublishReader_ReadUnit ==
    /\ rpc = "rRead"
    /\ sconnStatus = "open"
    /\ unitsWritten < MaxUnits
    /\ unitsWritten' = unitsWritten + 1
    /\ UNCHANGED <<pc, lpc, rpc, wpc, ctxVars, inputVars, extVars, resultVars,
                   resAnswers, newResult, penaltyElapsed, calls, addResult,
                   spResult, readerErrVal, pathVars, fieldVars, sconnStatus,
                   wrVars>>

\* err := r.Read(); if err != nil { return err }
runPublishReader_ReadErr ==
    /\ rpc = "rRead"
    /\ readerErrVal' = "readErr"
    /\ rpc' = "rSend"
    /\ UNCHANGED <<pc, lpc, wpc, ctxVars, inputVars, extVars, resultVars, resAnswers,
                   newResult, penaltyElapsed, calls, addResult, spResult,
                   unitsWritten, pathVars, fieldVars, sconnStatus, wrVars>>

\* ------------------------------------------------------------ runRead ----

\* path, stream, err := c.pathManager.AddReader(...)
runRead_AddReader ==
    /\ pc = "addReader"
    /\ calls' = Inc("AddReader")
    /\ \E r \in {"ok", "auth", "other"} :
         /\ addResult' = r
         /\ IF r = "ok"
              THEN /\ pathReaders' = doAddReader("self", pathReaders)
                   /\ pc' = "readPass"
                   /\ UNCHANGED <<resultVars, penaltyElapsed>>
              ELSE IF r = "auth"
                     THEN /\ penaltyElapsed' = 0
                          /\ pc' = "readAuthSleep"
                          /\ UNCHANGED <<resultVars, pathReaders>>
                     ELSE /\ err' = "addErr"
                          /\ answerSent' = FALSE
                          /\ pc' = "answer"
                          /\ UNCHANGED <<penaltyElapsed, pathReaders>>
    /\ UNCHANGED <<otherPcs, ctxVars, inputVars, extVars, resAnswers, newResult,
                   pubVars, pathPublisher, streamReaders, fieldVars,
                   sconnStatus, wrVars>>

\* <-time.After(pauseAfterAuthError); return false, err
runRead_authSleep ==
    /\ pc = "readAuthSleep"
    /\ TimerFired
    /\ err' = "auth"
    /\ answerSent' = FALSE
    /\ pc' = "answer"
    /\ UNCHANGED <<otherPcs, ctxVars, inputVars, extVars, resAnswers, newResult,
                   penaltyElapsed, calls, addResult, pubVars, pathVars,
                   fieldVars, sconnStatus, wrVars>>

\* err = srtCheckPassphrase(req.connReq, path.SafeConf().SRTReadPassphrase)
runRead_checkPassphrase ==
    /\ pc = "readPass"
    /\ LET e == srtCheckPassphrase(connReq, conf.SRTReadPassphrase) IN
         IF e # "nil"
           THEN /\ err' = e
                /\ answerSent' = FALSE
                /\ pc' = "readRemove"
           ELSE /\ pc' = "exchSend"
                /\ UNCHANGED resultVars
    /\ UNCHANGED <<otherPcs, ctxVars, inputVars, extVars, resAnswers, newResult,
                   penaltyElapsed, calls, addResult, pubVars, pathVars,
                   fieldVars, sconnStatus, wrVars>>

\* c.mutex.Lock(); c.state = connStateRead; ...; c.mutex.Unlock()
runRead_setState ==
    /\ pc = "readSetState"
    /\ state' = connStateRead
    /\ pathName' = "path"
    /\ query' = "query"
    /\ sconn' = "sconn"
    /\ pc' = "readFromStream"
    /\ UNCHANGED <<otherPcs, ctxVars, inputVars, extVars, resultVars, resAnswers,
                   newResult, penaltyElapsed, calls, addResult, pubVars,
                   pathVars, sconnStatus, wrVars>>

\* writer := asyncwriter.New(...); defer stream.RemoveReader(writer);
\* err = mpegts.FromStream(stream, writer, ...): subscribes the writer to the
\* formats of the stream, or fails
runRead_FromStream ==
    /\ pc = "readFromStream"
    /\ \/ /\ streamReaders' = streamReaders \cup {"self"}
          /\ pc' = "readOnRead"
          /\ UNCHANGED resultVars
       \/ /\ err' = "fromStreamErr"
          /\ answerSent' = TRUE
          /\ pc' = "readStreamRemove"
          /\ UNCHANGED streamReaders
    /\ UNCHANGED <<otherPcs, ctxVars, inputVars, extVars, resAnswers, newResult,
                   penaltyElapsed, calls, addResult, pubVars, pathPublisher,
                   pathReaders, fieldVars, sconnStatus, wrVars>>

\* onUnreadHook := hooks.OnRead(...)
runRead_OnRead ==
    /\ pc = "readOnRead"
    /\ calls' = Inc("onRead")
    /\ pc' = "readStart"
    /\ UNCHANGED <<otherPcs, ctxVars, inputVars, extVars, resultVars, resAnswers,
                   newResult, penaltyElapsed, addResult, pubVars, pathVars,
                   fieldVars, sconnStatus, wrVars>>

\* writer.Start()
runRead_writerStart ==
    /\ pc = "readStart"
    /\ calls' = Inc("writerStart")
    /\ wpc' = "wRun"
    /\ pc' = "readSel"
    /\ UNCHANGED <<lpc, rpc, ctxVars, inputVars, extVars, resultVars, resAnswers,
                   newResult, penaltyElapsed, addResult, pubVars, pathVars,
                   fieldVars, sconnStatus, wrVars>>

\* the session reaches select { case <-c.ctx.Done(); case err := <-writer.Error() }:
\* it takes a case that is ready, or parks
runRead_select ==
    /\ pc = "readSel"
    /\ \/ /\ wpc = "wSend"
          /\ err' = wErr
          /\ answerSent' = TRUE
          /\ wpc' = "wDone"
          /\ pc' = "readUnread"
       \/ /\ cancelled
          /\ pc' = "readCancel"
          /\ UNCHANGED <<resultVars, wpc>>
       \/ /\ ~cancelled
          /\ wpc # "wSend"
          /\ pc' = "readParked"
          /\ UNCHANGED <<resultVars, wpc>>
    /\ UNCHANGED <<lpc, rpc, ctxVars, inputVars, extVars, resAnswers, newResult,
                   penaltyElapsed, calls, addResult, pubVars, pathVars,
                   fieldVars, sconnStatus, wrVars>>

\* case err := <-writer.Error(): return true, err, taken by the parked session
runRead_recvWriterErr ==
    /\ pc = "readParked"
    /\ wpc = "wSend"
    /\ err' = wErr
    /\ answerSent' = TRUE
    /\ wpc' = "wDone"
    /\ pc' = "readUnread"
    /\ UNCHANGED <<lpc, rpc, ctxVars, inputVars, extVars, resAnswers, newResult,
                   penaltyElapsed, calls, addResult, pubVars, pathVars,
                   fieldVars, sconnStatus, wrVars>>

\* case <-c.ctx.Done(): writer.Stop() closes the buffer of the writer ...
runRead_writerStop ==
    /\ pc = "readCancel"
    /\ bufferClosed' = TRUE
    /\ pc' = "readStopWait"
    /\ UNCHANGED <<otherPcs, ctxVars, inputVars, extVars, resultVars, resAnswers,
                   newResult, penaltyElapsed, calls, addResult, pubVars,
                   pathVars, fieldVars, sconnStatus, wErr>>

\* ... and joins the worker; return true, fmt.Errorf("terminated")
runRead_writerStopWait ==
    /\ pc = "readStopWait"
    /\ wpc = "wSend"
    /\ wpc' = "wDone"
    /\ err' = "terminated"
    /\ answerSent' = TRUE
    /\ pc' = "readUnread"
    /\ UNCHANGED <<lpc, rpc, ctxVars, inputVars, extVars, resAnswers, newResult,
                   penaltyElapsed, calls, addResult, pubVars, pathVars,
                   fieldVars, sconnStatus, wrVars>>

\* mutant: the hook returned by hooks.OnRead is not deferred
runRead_onUnreadHook_Skipped ==
    /\ pc = "readUnread"
    /\ pc' = "readStreamRemove"
    /\ UNCHANGED <<otherPcs, ctxVars, inputVars, extVars, resultVars, resAnswers,
                   newResult, penaltyElapsed, calls, addResult, pubVars,
                   pathVars, fieldVars, sconnStatus, wrVars>>

\* defer onUnreadHook()
runRead_onUnreadHook ==
    /\ pc = "readUnread"
    /\ calls' = Inc("onUnread")
    /\ pc' = "readStreamRemove"
    /\ UNCHANGED <<otherPcs, ctxVars, inputVars, extVars, resultVars, resAnswers,
                   newResult, penaltyElapsed, addResult, pubVars, pathVars,
                   fieldVars, sconnStatus, wrVars>>

\* mutant: the removal drops every reader of the stream
runRead_streamRemoveReader_All ==
    /\ pc = "readStreamRemove"
    /\ calls' = Inc("streamRemoveReader")
    /\ streamReaders' = {}
    /\ pc' = "readSconnClose"
    /\ UNCHANGED <<otherPcs, ctxVars, inputVars, extVars, resultVars, resAnswers,
                   newResult, penaltyElapsed, addResult, pubVars,
                   pathPublisher, pathReaders, fieldVars, sconnStatus, wrVars>>

\* defer stream.RemoveReader(writer)
runRead_streamRemoveReader ==
    /\ pc = "readStreamRemove"
    /\ calls' = Inc("streamRemoveReader")
    /\ streamReaders' = streamReaders \ {"self"}
    /\ pc' = "readSconnClose"
    /\ UNCHANGED <<otherPcs, ctxVars, inputVars, extVars, resultVars, resAnswers,
                   newResult, penaltyElapsed, addResult, pubVars,
                   pathPublisher, pathReaders, fieldVars, sconnStatus, wrVars>>

\* mutant: the connection is not closed on return
runRead_sconnClose_Missing ==
    /\ pc = "readSconnClose"
    /\ pc' = "readRemove"
    /\ UNCHANGED <<otherPcs, ctxVars, inputVars, extVars, resultVars, resAnswers,
                   newResult, penaltyElapsed, calls, addResult, pubVars,
                   pathVars, fieldVars, sconnStatus, wrVars>>

\* defer sconn.Close()
runRead_sconnClose ==
    /\ pc = "readSconnClose"
    /\ calls' = Inc("sconnClose")
    /\ sconnStatus' = "closed"
    /\ pc' = "readRemove"
    /\ UNCHANGED <<otherPcs, ctxVars, inputVars, extVars, resultVars, resAnswers,
                   newResult, penaltyElapsed, addResult, pubVars, pathVars,
                   fieldVars, wrVars>>

\* defer path.RemoveReader(defs.PathRemoveReaderReq{Author: c})
runRead_RemoveReader ==
    /\ pc = "readRemove"
    /\ calls' = Inc("RemoveReader")
    /\ pathReaders' = doRemoveReader("self", pathReaders)
    /\ pc' = "answer"
    /\ UNCHANGED <<otherPcs, ctxVars, inputVars, extVars, resultVars, resAnswers,
                   newResult, penaltyElapsed, addResult, pubVars,
                   pathPublisher, streamReaders, fieldVars, sconnStatus,
                   wrVars>>

\* ------------------------------------------------ async writer worker ----

\* an item of the queue returns an error, or the queue of the reader
\* overflows: the worker stops and publishes the error on Error()
writer_error ==
    /\ wpc = "wRun"
    /\ wErr' \in {"overflow", "writeErr"}
    /\ wpc' = "wSend"
    /\ UNCHANGED <<pc, lpc, rpc, ctxVars, inputVars, extVars, resultVars, resAnswers,
                   newResult, penaltyElapsed, calls, addResult, pubVars,
                   pathVars, fieldVars, sconnStatus, bufferClosed>>

\* Stop() has closed the buffer: the worker ends
writer_stopped ==
    /\ wpc = "wRun"
    /\ bufferClosed
    /\ wErr' = "terminated"
    /\ wpc' = "wSend"
    /\ UNCHANGED <<pc, lpc, rpc, ctxVars, inputVars, extVars, resultVars, resAnswers,
                   newResult, penaltyElapsed, calls, addResult, pubVars,
                   pathVars, fieldVars, sconnStatus, bufferClosed>>

\* ------------------------------------------------------ specification ----

Next ==
    \/ Close
    \/ Tick
    \/ new_call
    \/ new_ctxDone
    \/ setConn_call
    \/ setConn_ctxDone
    \/ run_OnConnect
    \/ runInner_recvNew
    \/ runInner_ctxDone
    \/ runInner2
    \/ runInner_answer
    \/ run_ctxCancel
    \/ run_closeConn
    \/ run_onDisconnectHook
    \/ run_wgDone
    \/ exchange_send
    \/ exchange_recvSetConn
    \/ exchange_ctxDone
    \/ runPublish_AddPublisher
    \/ runPublish_authSleep
    \/ runPublish_checkPassphrase
    \/ runPublish_setState
    \/ runPublish_go
    \/ runPublish_select
    \/ runPublish_recvReaderErr
    \/ runPublish_readerErrClose
    \/ runPublish_ctxDoneClose
    \/ runPublish_waitReader
    \/ runPublish_RemovePublisher
    \/ runPublishReader_NewReader
    \/ runPublishReader_ToStream
    \/ runPublishReader_StartPublisher
    \/ runPublishReader_ReadUnit
    \/ runPublishReader_ReadErr
    \/ runRead_AddReader
    \/ runRead_authSleep
    \/ runRead_checkPassphrase
    \/ runRead_setState
    \/ runRead_FromStream
    \/ runRead_OnRead
    \/ runRead_writerStart
    \/ runRead_select
    \/ runRead_recvWriterErr
    \/ runRead_writerStop
    \/ runRead_writerStopWait
    \/ runRead_onUnreadHook
    \/ runRead_streamRemoveReader
    \/ runRead_sconnClose
    \/ runRead_RemoveReader
    \/ writer_error
    \/ writer_stopped

Spec == Init /\ [][Next]_vars

\* Fairness: every goroutine that can take a step eventually takes one; the
\* penalty timer eventually fires; a read from a closed connection returns
\* (no fairness for successful reads, for Close or for the listener's
\* decision to call setConn).
SessionStep ==
    \/ run_OnConnect \/ runInner_recvNew \/ runInner_ctxDone \/ runInner2
    \/ runInner_answer \/ run_ctxCancel \/ run_closeConn
    \/ run_onDisconnectHook \/ run_wgDone
    \/ exchange_send \/ exchange_recvSetConn \/ exchange_ctxDone
    \/ runPublish_AddPublisher \/ runPublish_authSleep
    \/ runPublish_checkPassphrase \/ runPublish_setState \/ runPublish_go
    \/ runPublish_select \/ runPublish_recvReaderErr
    \/ runPublish_readerErrClose \/ runPublish_ctxDoneClose
    \/ runPublish_waitReader \/ runPublish_RemovePublisher
    \/ runRead_AddReader \/ runRead_authSleep \/ runRead_checkPassphrase
    \/ runRead_setState \/ runRead_FromStream \/ runRead_OnRead
    \/ runRead_writerStart \/ runRead_select \/ runRead_recvWriterErr
    \/ runRead_writerStop \/ runRead_writerStopWait \/ runRead_onUnreadHook
    \/ runRead_streamRemoveReader \/ runRead_sconnClose
    \/ runRead_RemoveReader

ReaderStep ==
    \/ runPublishReader_NewReader
    \/ runPublishReader_ToStream
    \/ runPublishReader_StartPublisher
    \/ (sconnStatus = "closed" /\ runPublishReader_ReadErr)

Fairness ==
    /\ WF_vars(SessionStep)
    /\ WF_vars(ReaderStep)
    /\ WF_vars(Tick)
    /\ WF_vars(writer_stopped)
    /\ WF_vars(new_ctxDone)

FairSpec == Init /\ [][Next]_vars /\ Fairness

\* --------------------------------------------------------- properties ----

\* positions of the session after runInner2 has returned and the request
\* has been answered
AfterInner == {"afterInner", "closeConn", "onDisconnect", "wgDone", "done"}

PublishAdmitted == calls["AddPublisher"] = 1 /\ addResult = "ok"
ReadAdmitted == calls["AddReader"] = 1 /\ addResult = "ok"

\* C1: AddPublisher/AddReader is called at most once in total per session; if
\* the call succeeded the matching RemovePublisher/RemoveReader has been
\* called exactly once when runInner2 has returned (hence before run
\* returns), whatever the exit path; if it failed, or was never made, no
\* Remove is ever called.
C1_AddOnceRemoveMatching ==
    /\ calls["AddPublisher"] + calls["AddReader"] <= 1
    /\ calls["RemovePublisher"] <= (IF PublishAdmitted THEN 1 ELSE 0)
    /\ calls["RemoveReader"] <= (IF ReadAdmitted THEN 1 ELSE 0)
    /\ pc \in AfterInner \cup {"answer"} =>
         /\ PublishAdmitted => calls["RemovePublisher"] = 1
         /\ ReadAdmitted => calls["RemoveReader"] = 1

\* a publishing session cancelled while running has returned, publisher removed
C1_Witness ==
    /\ pc = "done"
    /\ PublishAdmitted
    /\ cancelledAt = "pubParked"
    /\ calls["RemovePublisher"] = 1

\* C2: (liveness, under Fairness) once AddPublisher has succeeded and the
\* session is cancelled or its publish reader has returned an error,
\* RemovePublisher is eventually called and run eventually returns.
C2_RemoveEventually ==
    (PublishAdmitted /\ (cancelled \/ rpc \in {"rSend", "rDone"}))
        ~> (calls["RemovePublisher"] = 1 /\ pc = "done")

\* the publish reader failed on its own (no Close) and the session returned
C2_Witness ==
    /\ pc = "done"
    /\ PublishAdmitted
    /\ nClose = 0
    /\ err = "readErr"
    /\ calls["RemovePublisher"] = 1

\* positions of a publishing session from the receipt of the connection to
\* the receipt of the reader's error
PublishRunning == {"pubSetState", "pubSpawn", "pubSel", "pubParked"}

\* C3 as stated: StartPublisher has returned successfully before any unit is
\* written; if StartPublisher fails no unit is written and the session ends
\* with that error.
C3_Original ==
    /\ unitsWritten > 0 => spResult = "ok"
    /\ spResult = "fail" => unitsWritten = 0
    /\ (spResult = "fail" /\ pc \in AfterInner) => err = "startPublisherErr"

\* C3 (amended): StartPublisher has returned successfully before any unit is
\* written; if StartPublisher fails no unit is ever written and the session
\* ends with that error, or with "terminated" when Close() cancelled it
\* before the error was received.
C3_StartBeforeUnits ==
    /\ unitsWritten > 0 => spResult = "ok"
    /\ spResult = "fail" => unitsWritten = 0
    /\ (spResult = "fail" /\ pc \in AfterInner) =>
          \/ err = "startPublisherErr"
          \/ err = "terminated" /\ cancelledAt \in PublishRunning

\* StartPublisher failed and the session ended with that error
C3_Witness ==
    /\ pc = "done"
    /\ spResult = "fail"
    /\ err = "startPublisherErr"
    /\ unitsWritten = 0

\* C4: after an AuthenticationError of AddPublisher/AddReader the request is
\* answered (with nil) and the session closes only once the penalty timer
\* has run its full pauseAfterAuthError; after another error the request is
\* answered with nil and the timer is never armed.
C4_PenaltyBeforeAnswer ==
    /\ addResult = "auth" =>
         /\ resAnswers \in {<<>>, <<"nil">>}
         /\ (resAnswers # <<>> \/ pc \in AfterInner \/ calls["closeConn"] > 0)
               => penaltyElapsed = pauseAfterAuthError
         /\ pc \in AfterInner => resAnswers = <<"nil">> /\ err = "auth"
    /\ addResult = "other" =>
         /\ penaltyElapsed = -1
         /\ pc \in AfterInner => resAnswers = <<"nil">> /\ err = "addErr"

\* a rejected session has been answered after the full penalty
C4_Witness ==
    /\ addResult = "auth"
    /\ resAnswers = <<"nil">>
    /\ penaltyElapsed = pauseAfterAuthError

\* the waits of the session that select on ctx.Done
SelectWaits == {"selNew", "exchSel", "pubParked", "readParked"}

\* the penalty sleeps of the authentication round-trip
PenaltySleeps == {"pubAuthSleep", "readAuthSleep"}

PublishFailedEarly ==
    /\ connReq.mode = "publish"
    /\ \/ err \in {"auth", "addErr", "errNotEncrypted", "errInvalidPassphrase"}
       \/ err = "terminated" /\ calls["AddPublisher"] = 1 /\ sconnStatus = "none"

\* C6: a publish attempt that fails at access control or at the handshake
\* (passphrase check, connection exchange) leaves the publisher of the path
\* as it was before the attempt, at every point from the failure on, and a
\* failure before the exchange is answered with nil.
C6_FailedPublishLeavesPath ==
    PublishFailedEarly =>
        /\ pathPublisher = pathPubBefore
        /\ (pc \in AfterInner /\ err # "terminated") => resAnswers = <<"nil">>

\* errors the writer worker publishes on writer.Error() by itself
WriterErrors == {"overflow", "writeErr"}

C7_State ==
    /\ calls["writerStart"] <= 1
    /\ (err \in WriterErrors /\ pc \in AfterInner \cup {"answer"}) =>
          /\ "self" \notin streamReaders
          /\ "self" \notin pathReaders
          /\ sconnStatus = "closed"
          /\ calls["streamRemoveReader"] = 1
          /\ calls["RemoveReader"] = 1
          /\ calls["sconnClose"] = 1
          /\ calls["RemovePublisher"] = 0
          /\ pathPublisher = pathPubBefore

C7_Step ==
    /\ calls'["writerStart"] > calls["writerStart"] => "self" \in streamReaders
    /\ (pc \in {"readSel", "readParked"} /\ wpc = "wSend" /\ wpc' = "wDone") =>
          /\ err' = wErr
          /\ wErr \in WriterErrors
          /\ pc' = "readUnread"
    /\ streamReaders' \ {"self"} = streamReaders \ {"self"}
    /\ pathReaders' \ {"self"} = pathReaders \ {"self"}

\* C7: the async writer is started only once the session is subscribed to
\* the stream; when the session receives an error from writer.Error() it
\* returns that error, having removed its own reader from the stream and
\* from the path and closed its own connection; no step of the session
\* changes another reader of the stream or path, and a reading session never
\* removes or changes the publisher.
C7_WriterErrorEndsOnlySelf == []C7_State /\ [][C7_Step]_vars

\* a reader whose queue overflowed has ended while the other reader stays
C7_Witness ==
    /\ pc = "done"
    /\ err = "overflow"
    /\ nClose = 0
    /\ "other" \in streamReaders

TeardownCalls ==
    {"closeConn", "onDisconnect", "wgDone", "RemovePublisher",
     "RemoveReader", "streamRemoveReader"}

C8_State ==
    /\ \A c \in TeardownCalls : calls[c] <= 1
    /\ pc = "done" =>
          /\ calls["closeConn"] = 1
          /\ calls["onDisconnect"] = 1
          /\ calls["wgDone"] = 1

C8_Step ==
    (nClose' # nClose /\ cancelled) =>
        UNCHANGED <<pc, lpc, rpc, wpc, cancelled, cancelledAt, connReq, conf,
                    answerSent, err, resAnswers, newResult, penaltyElapsed,
                    calls, addResult, spResult, unitsWritten, pathPublisher,
                    pathPubBefore, pathReaders, streamReaders, state,
                    pathName, query, sconn, sconnStatus, readerErrVal, wErr,
                    bufferClosed>>

\* C8: Close() on an already cancelled session changes nothing, in every
\* state of the session, and however many times Close() is called each
\* teardown operation (parent.closeConn, onDisconnect hook, wg.Done, path
\* and stream removal) is performed at most once, and exactly once when run
\* has returned.
C8_IdempotentClose == []C8_State /\ [][C8_Step]_vars

\* Close() was called twice and the session has returned
C8_Witness ==
    /\ nClose >= 2
    /\ pc = "done"
    /\ calls["closeConn"] = 1
    /\ calls["wgDone"] = 1

\* C9: when runInner has returned (hence before run returns) the connection
\* received over chSetConn, if any, is closed, and the session is registered
\* neither on the stream nor on the path, as reader or as publisher.
C9_ReleasedBeforeReturn ==
    pc \in AfterInner =>
        /\ sconnStatus # "open"
        /\ sconnStatus = "closed" => calls["sconnClose"] = 1
        /\ "self" \notin streamReaders
        /\ "self" \notin pathReaders
        /\ pathPublisher # "self"

\* a reading session that was cancelled while running has released all
C9_Witness ==
    /\ pc = "done"
    /\ sconnStatus = "closed"
    /\ cancelledAt = "readParked"
    /\ calls["streamRemoveReader"] = 1
    /\ calls["RemoveReader"] = 1

\* C10: onDisconnect is invoked exactly once per session, after onConnect and
\* after runInner has ended; onUnread is invoked exactly once iff onRead was
\* invoked, and while onRead has no matching onUnread yet the reader is
\* still registered on the stream and on the path.
C10_HooksPaired ==
    /\ calls["onConnect"] <= 1
    /\ calls["onDisconnect"] <= 1
    /\ calls["onDisconnect"] = 1 =>
          calls["onConnect"] = 1 /\ pc \in {"wgDone", "done"}
    /\ pc = "done" => calls["onDisconnect"] = 1
    /\ calls["onRead"] <= 1
    /\ calls["onUnread"] <= calls["onRead"]
    /\ pc \in AfterInner \cup {"answer"} => calls["onUnread"] = calls["onRead"]
    /\ calls["onUnread"] < calls["onRead"] =>
          "self" \in streamReaders /\ "self" \in pathReaders

\* a reading session has fired onRead, onUnread and onDisconnect
C10_Witness ==
    /\ pc = "done"
    /\ calls["onRead"] = 1
    /\ calls["onUnread"] = 1
    /\ calls["onDisconnect"] = 1


\* conn.apiItem: the state, path, query and metrics read under c.mutex.RLock
apiItem ==
    [State |-> IF state = connStateRead THEN "read"
               ELSE IF state = connStatePublish THEN "publish"
               ELSE "idle",
     Path |-> pathName,
     Query |-> query,
     hasMetrics |-> sconn # "nil"]

\* the passphrase the path configures for the mode of the request
ConfiguredPassphrase ==
    IF connReq.mode = "publish" THEN conf.SRTPublishPassphrase
    ELSE conf.SRTReadPassphrase

\* the request is encrypted with the configured passphrase, or none is
\* configured
PassphraseOK ==
    \/ ConfiguredPassphrase = ""
    \/ connReq.encrypted /\ connReq.passphrase = ConfiguredPassphrase

\* C18 (state part): at most one value is ever sent on req.res; while new()
\* waits for the answer the session is still inside runInner2 with no
\* answer sent; new() returns the value that was sent, or nil when the
\* session was cancelled before it took the request; the answer is the conn
\* exactly when admission and the passphrase check succeeded, nil otherwise.
C18_State ==
    /\ Len(resAnswers) <= 1
    /\ lpc = "lRecvRes" =>
          /\ resAnswers = <<>>
          /\ pc \notin AfterInner \cup {"start", "selNew"}
          /\ ~answerSent
    /\ pc \in AfterInner /\ ~answerSent /\ resAnswers # <<>> =>
          resAnswers = <<"nil">>
    /\ answerSent => resAnswers = <<"conn">>
    /\ resAnswers # <<>> => newResult = resAnswers[1]
    /\ (newResult # "none" /\ resAnswers = <<>>) => (newResult = "nil" /\ cancelled)
    /\ resAnswers = <<"conn">> <=>
          (addResult = "ok" /\ PassphraseOK /\ pc \notin {"pubPass", "readPass", "exchSend"})

\* C18: every request the session receives on chNew is answered exactly once
\* on req.res, with the conn or with nil, and conn.new() always returns,
\* whether the session takes the request or is cancelled first.
C18_AnsweredOnce ==
    /\ []C18_State
    /\ (lpc \in {"lNewSel", "lRecvRes"} ~> newResult # "none")

\* the session was admitted, failed the passphrase check and answered nil
C18_Witness ==
    /\ resAnswers = <<"nil">>
    /\ newResult = "nil"
    /\ addResult = "ok"
    /\ err = "errNotEncrypted"
    /\ pc = "done"

\* C19: the conn is sent on req.res, and the session gets to the publish or
\* read state, only if the path manager admitted it and the passphrase check
\* passed: with a passphrase configured the request must be encrypted with
\* that passphrase; a request that is not is answered nil with the error of
\* the check; with no passphrase configured the check never fails.
C19_PositiveOnlyIfChecked ==
    /\ (resAnswers = <<"conn">> \/ state # connStateIdle \/ sconnStatus # "none")
          => (addResult = "ok" /\ PassphraseOK)
    /\ (addResult = "ok" /\ ~PassphraseOK /\ pc \in AfterInner) =>
          /\ resAnswers = <<"nil">>
          /\ err = IF connReq.encrypted THEN "errInvalidPassphrase"
                   ELSE "errNotEncrypted"
          /\ state = connStateIdle
    /\ ConfiguredPassphrase = "" =>
          err \notin {"errNotEncrypted", "errInvalidPassphrase"}

\* an encrypted request with the configured passphrase was answered with the
\* conn and the session is publishing
C19_Witness ==
    /\ resAnswers = <<"conn">>
    /\ ConfiguredPassphrase = "pw"
    /\ connReq.encrypted
    /\ state = connStatePublish

\* C20 (state part): apiItem never sees a state other than idle without the
\* connection; while the state is idle, path, query and sconn are unset;
\* once it is publish or read it matches the mode of the stream ID, and
\* admission, the passphrase check and the exchange have succeeded.
C20_State ==
    /\ apiItem.State = "idle" <=> ~apiItem.hasMetrics
    /\ state = connStateIdle => (pathName = "" /\ query = "" /\ sconn = "nil")
    /\ state # connStateIdle =>
          /\ state = IF connReq.mode = "publish" THEN connStatePublish
                     ELSE connStateRead
          /\ connReq.mode \in {"publish", "read"}
          /\ pathName # "" /\ query # ""
          /\ addResult = "ok"
          /\ PassphraseOK
          /\ resAnswers = <<"conn">>
          /\ sconnStatus # "none"

\* C20 (step part): the state changes only from idle to publish or read, and
\* path, query and sconn change in that step and in no other.
C20_Step ==
    /\ state' # state =>
          /\ state = connStateIdle
          /\ pathName' # pathName /\ query' # query /\ sconn' # sconn
    /\ (pathName' # pathName \/ query' # query \/ sconn' # sconn) =>
          state' # state

\* C20: the API-visible state is idle until admission, passphrase check and
\* exchange have succeeded; it then becomes publish or read together with
\* path, query and sconn, and never changes again.
C20_StateSetOnce ==
    /\ []C20_State
    /\ [][C20_Step]_vars

\* a reading session has ended and its state is still read
C20_Witness ==
    /\ state = connStateRead
    /\ apiItem.State = "read"
    /\ pc = "done"

\* C21 (state part): when runPublish is at its deferred RemovePublisher or
\* past it, the publish-reader goroutine was never started or has returned
\* and its result was received from readerErr; it was started iff the state
\* became publish.
C21_State ==
    (pc \in {"pubRemove", "answer"} \cup AfterInner \/ calls["RemovePublisher"] > 0)
        => /\ rpc \in {"rIdle", "rDone"}
           /\ state = connStatePublish => rpc = "rDone"

\* C21 (step part): once RemovePublisher was called there is no
\* StartPublisher call, no unit written and no step of the goroutine.
C21_Step ==
    calls["RemovePublisher"] > 0 =>
        /\ calls'["StartPublisher"] = calls["StartPublisher"]
        /\ unitsWritten' = unitsWritten
        /\ rpc' = rpc

\* C21: in a publishing session RemovePublisher is called only after
\* runPublishReader has returned and runPublish has received from readerErr,
\* so StartPublisher and unit writes never come after RemovePublisher and the
\* goroutine does not outlive the session.
C21_RemoveAfterReader ==
    /\ []C21_State
    /\ [][C21_Step]_vars

\* a cancelled publishing session that had written units has ended: the
\* goroutine has returned and RemovePublisher was called
C21_Witness ==
    /\ pc = "done"
    /\ rpc = "rDone"
    /\ err = "terminated"
    /\ unitsWritten > 0
    /\ calls["StartPublisher"] = 1
    /\ calls["RemovePublisher"] = 1

\* ====================================================================== *
\* Stream fan-out: streamNonRTSPReadersMap and stream (package core).      *
\* Every reader is added and removed by its owner, one call after the      *
\* other; a single writer calls stream.writeData; stream.close is called   *
\* once.  m.mutex is a sync.RWMutex: Lock waits until no lock is held,     *
\* RLock waits until no write lock is held.                                *
\* ====================================================================== *

\* the state in which every component is freshly constructed and the session
\* has one fixed request
Idle ==
    /\ Init
    /\ connReq = [mode |-> "publish", encrypted |-> FALSE, passphrase |-> "pw"]
    /\ conf = [SRTPublishPassphrase |-> "", SRTReadPassphrase |-> ""]
    /\ pathPubBefore = "none"
    /\ pathReaders = {}

isRTSP(r) == r \in RTSPSessions

\* mutant: add, remove and close do not take the mutex
CanLock_NoMutex == TRUE

\* m.mutex.Lock() can proceed
CanLock == ~mutex.w /\ mutex.r = 0

\* m.mutex.RLock() can proceed
CanRLock == ~mutex.w

streamRest == <<connVars, hlsVars, recVars>>

\* stream.readerAdd(r): an RTSP session is not added to the map; for any
\* other reader add(r) is called and takes m.mutex.Lock()
readerAdd(r) ==
    /\ ~panicked
    /\ rdpc[r] = "idle"
    /\ IF isRTSP(r)
         THEN /\ rdpc' = [rdpc EXCEPT ![r] = "added"]
              /\ UNCHANGED mutex
         ELSE /\ CanLock
              /\ mutex' = [mutex EXCEPT !.w = TRUE]
              /\ rdpc' = [rdpc EXCEPT ![r] = "addBody"]
    /\ UNCHANGED <<ma, maIsNil, swpc, clpc, data, wDone, hasNonRTSP,
                   rtspPackets, snap, snaps, visited, recv, addedAt,
                   removedAt, panicked, streamRest>>

\* add: m.ma[r] = struct{}{} and the deferred Unlock; the assignment panics
\* when m.ma is nil
add(r) ==
    /\ ~panicked
    /\ rdpc[r] = "addBody"
    /\ mutex' = [mutex EXCEPT !.w = FALSE]
    /\ IF maIsNil
         THEN /\ panicked' = TRUE
              /\ UNCHANGED <<ma, rdpc, addedAt>>
         ELSE /\ ma' = ma \cup {r}
              /\ rdpc' = [rdpc EXCEPT ![r] = "added"]
              /\ addedAt' = [addedAt EXCEPT ![r] = data]
              /\ UNCHANGED panicked
    /\ UNCHANGED <<maIsNil, swpc, clpc, data, wDone, hasNonRTSP,
                   rtspPackets, snap, snaps, visited, recv, removedAt,
                   streamRest>>

\* stream.readerRemove(r), also called for a reader that was never added:
\* nothing for an RTSP session; for any other reader remove(r) is called and
\* takes m.mutex.Lock()
readerRemove(r) ==
    /\ ~panicked
    /\ rdpc[r] \in {"idle", "added"}
    /\ IF isRTSP(r)
         THEN /\ rdpc' = [rdpc EXCEPT ![r] = "removed"]
              /\ UNCHANGED mutex
         ELSE /\ CanLock
              /\ mutex' = [mutex EXCEPT !.w = TRUE]
              /\ rdpc' = [rdpc EXCEPT ![r] = "removeBody"]
    /\ UNCHANGED <<ma, maIsNil, swpc, clpc, data, wDone, hasNonRTSP,
                   rtspPackets, snap, snaps, visited, recv, addedAt,
                   removedAt, panicked, streamRest>>

\* mutant: remove leaves the reader in the map
remove_Keep(r) ==
    /\ ~panicked
    /\ rdpc[r] = "removeBody"
    /\ mutex' = [mutex EXCEPT !.w = FALSE]
    /\ rdpc' = [rdpc EXCEPT ![r] = "removed"]
    /\ removedAt' = [removedAt EXCEPT ![r] = data]
    /\ UNCHANGED <<ma, maIsNil, swpc, clpc, data, wDone, hasNonRTSP,
                   rtspPackets, snap, snaps, visited, recv, addedAt,
                   panicked, streamRest>>

\* remove: delete(m.ma, r) and the deferred Unlock
remove(r) ==
    /\ ~panicked
    /\ rdpc[r] = "removeBody"
    /\ ma' = ma \ {r}
    /\ mutex' = [mutex EXCEPT !.w = FALSE]
    /\ rdpc' = [rdpc EXCEPT ![r] = "removed"]
    /\ removedAt' = [removedAt EXCEPT ![r] = data]
    /\ UNCHANGED <<maIsNil, swpc, clpc, data, wDone, hasNonRTSP,
                   rtspPackets, snap, snaps, visited, recv, addedAt,
                   panicked, streamRest>>

\* stream.close: nonRTSPReaders.close() takes the lock
streamClose_Lock ==
    /\ ~panicked
    /\ clpc = "idle"
    /\ CanLock
    /\ mutex' = [mutex EXCEPT !.w = TRUE]
    /\ clpc' = "closeBody"
    /\ UNCHANGED <<ma, maIsNil, rdpc, swpc, data, wDone, hasNonRTSP,
                   rtspPackets, snap, snaps, visited, recv, addedAt,
                   removedAt, panicked, streamRest>>

\* stream.close: m.ma = nil, the deferred Unlock, rtspStream.Close()
streamClose ==
    /\ ~panicked
    /\ clpc = "closeBody"
    /\ ma' = {}
    /\ maIsNil' = TRUE
    /\ mutex' = [mutex EXCEPT !.w = FALSE]
    /\ clpc' = "closed"
    /\ UNCHANGED <<rdpc, swpc, data, wDone, hasNonRTSP, rtspPackets, snap,
                   snaps, visited, recv, addedAt, removedAt, panicked,
                   streamRest>>

\* stream.writeData: hasReaders() under the read lock, onData with its
\* result, then the RTP packets go to rtspStream
stream_writeData ==
    /\ ~panicked
    /\ swpc = "idle"
    /\ data < MaxWrites
    /\ CanRLock
    /\ data' = data + 1
    /\ hasNonRTSP' = (Cardinality(ma) > 0)
    /\ rtspPackets' = rtspPackets + 1
    /\ swpc' = "rlock"
    /\ UNCHANGED <<ma, maIsNil, mutex, rdpc, clpc, wDone, snap, snaps,
                   visited, recv, addedAt, removedAt, panicked, streamRest>>

\* nonRTSPReaders.writeData: m.mutex.RLock()
writeData_RLock ==
    /\ ~panicked
    /\ swpc = "rlock"
    /\ CanRLock
    /\ mutex' = [mutex EXCEPT !.r = @ + 1]
    /\ snap' = ma
    /\ snaps' = Append(snaps, ma)
    /\ visited' = {}
    /\ swpc' = "loop"
    /\ UNCHANGED <<ma, maIsNil, rdpc, clpc, data, wDone, hasNonRTSP,
                   rtspPackets, recv, addedAt, removedAt, panicked,
                   streamRest>>

\* one iteration of `for c := range m.ma`: c.onReaderData(data); the map is
\* ranged over in any order
writeData_onReaderData(r) ==
    /\ ~panicked
    /\ swpc = "loop"
    /\ r \in ma \ visited
    /\ recv' = [recv EXCEPT ![r] = Append(@, data)]
    /\ visited' = visited \cup {r}
    /\ UNCHANGED <<ma, maIsNil, mutex, rdpc, swpc, clpc, data, wDone,
                   hasNonRTSP, rtspPackets, snap, snaps, addedAt, removedAt,
                   panicked, streamRest>>

\* mutant: the range loop may end before every reader was visited
writeData_RUnlock_Early ==
    /\ ~panicked
    /\ swpc = "loop"
    /\ mutex' = [mutex EXCEPT !.r = @ - 1]
    /\ wDone' = data
    /\ swpc' = "idle"
    /\ UNCHANGED <<ma, maIsNil, rdpc, clpc, data, hasNonRTSP, rtspPackets,
                   snap, snaps, visited, recv, addedAt, removedAt, panicked,
                   streamRest>>

\* the range loop is over: the deferred RUnlock, writeData returns
writeData_RUnlock ==
    /\ ~panicked
    /\ swpc = "loop"
    /\ ma \ visited = {}
    /\ mutex' = [mutex EXCEPT !.r = @ - 1]
    /\ wDone' = data
    /\ swpc' = "idle"
    /\ UNCHANGED <<ma, maIsNil, rdpc, clpc, data, hasNonRTSP, rtspPackets,
                   snap, snaps, visited, recv, addedAt, removedAt, panicked,
                   streamRest>>

StreamNext ==
    \/ \E r \in StreamReaderIds : readerAdd(r)
    \/ \E r \in NonRTSP : add(r)
    \/ \E r \in StreamReaderIds : readerRemove(r)
    \/ \E r \in NonRTSP : remove(r)
    \/ streamClose_Lock
    \/ streamClose
    \/ stream_writeData
    \/ writeData_RLock
    \/ \E r \in NonRTSP : writeData_onReaderData(r)
    \/ writeData_RUnlock

StreamSpec == Idle /\ [][StreamNext]_vars


\* data items passed to r.onReaderData so far
Received(r) == {recv[r][i] : i \in 1..Len(recv[r])}

\* number of times item k was passed to r.onReaderData
Times(r, k) == Cardinality({i \in 1..Len(recv[r]) : recv[r][i] = k})

\* C11: once remove(r) has returned for a non-RTSP reader r, no writeData
\* call that starts afterwards passes its data to r.onReaderData: every item
\* r has received belongs to a call that had started when remove returned.
C11_NoDataAfterRemove ==
    \A r \in NonRTSP :
        rdpc[r] = "removed" => \A k \in Received(r) : k <= removedAt[r]

\* a reader that had received data was removed, and a write that started
\* later has been delivered to the other reader
C11_Witness ==
    \E r, o \in NonRTSP :
        /\ rdpc[r] = "removed"
        /\ Received(r) # {}
        /\ wDone > removedAt[r]
        /\ wDone \in Received(o)

\* C12: each writeData call passes its data exactly once to every reader of
\* the map as it was when the call took the read lock: the map does not
\* change while the loop runs, and no reader gets the data of one call twice.
C12_OneSnapshotOnce ==
    /\ swpc = "loop" =>
          /\ ma = snap
          /\ \A r \in NonRTSP : Times(r, data) = IF r \in visited THEN 1 ELSE 0
    /\ \A k \in 1..wDone :
          \A r \in NonRTSP : Times(r, k) = IF r \in snaps[k] THEN 1 ELSE 0

\* a delivery loop over two readers is half done while the owner of another
\* call waits for the lock, and an earlier write went to one reader only
C12_Witness ==
    /\ swpc = "loop"
    /\ Cardinality(snap) = 2
    /\ Cardinality(visited) = 1
    /\ wDone >= 1
    /\ Cardinality(snaps[1]) = 1

\* C13: with the single writer, a reader receives the data items in the
\* order written, without repetition and without a gap between the first
\* and the last item it receives; a reader that is in the map has received
\* every item whose write started after its add returned and has returned.
C13_InOrderNoGap ==
    /\ \A r \in NonRTSP :
          \A i \in 1..(Len(recv[r]) - 1) : recv[r][i + 1] = recv[r][i] + 1
    /\ \A r \in NonRTSP :
          (r \in ma /\ rdpc[r] = "added") =>
              \A k \in (addedAt[r] + 1)..wDone : k \in Received(r)

\* a reader that was added after the first write has received the second
\* and the third item and is still registered
C13_Witness ==
    \E r \in NonRTSP :
        /\ rdpc[r] = "added"
        /\ addedAt[r] = 1
        /\ recv[r] = <<2, 3>>
        /\ wDone = 3


\* ====================================================================== *
\* Static source supervisor: hlsSource.run / runInner and the upstream     *
\* client it creates.  The channel returned by c.Wait() holds the result   *
\* of the client once it has ended.  A supervisor parked in a select is    *
\* claimed by the first case that becomes ready.                           *
\* ====================================================================== *

hlsRest == <<connVars, streamVars, recVars>>

\* positions of the supervisor after it has left the loop
HlsExited == {"ctxCancel", "wgDone", "done"}

\* mutant: the deferred function calls OnSourceStaticSetNotReady always
DeferredNotReady_Always == nSetNotReady + 1

\* the deferred function of runInner: OnSourceStaticSetNotReady iff stream
\* is not nil
DeferredNotReady == IF hstream THEN nSetNotReady + 1 ELSE nSetNotReady

\* the case of the select of runInner that fires when the client ends
ClientEnded(p) == IF p = "innerParked" THEN "innerGotWait" ELSE p

\* hlsSource.Close(): s.ctxCancel(); the parent context's cancellation has
\* the same effect
hlsSource_Close ==
    /\ ~hCloseCalled
    /\ hCloseCalled' = TRUE
    /\ hcancelled' = TRUE
    /\ hpc' = IF hpc = "innerParked" THEN "innerGotDone"
              ELSE IF hpc = "pauseParked" THEN "ctxCancel"
              ELSE hpc
    /\ hObserved' = IF hpc \in {"innerParked", "pauseParked"}
                      THEN [attempts |-> nAttempts, client |-> cpc,
                            atClose |-> cpc]
                      ELSE [hObserved EXCEPT !.atClose = cpc]
    /\ UNCHANGED <<nAttempts, cpc, cClosed, waitBuf, retryElapsed, hstream,
                   nSetReady, nSetNotReady, framesIn, framesFwd, hWgDone,
                   hlsRest>>

\* run: s.runInner() up to hls.NewClient
hlsRun_runInner ==
    /\ hpc = "runInner"
    /\ nAttempts < MaxAttempts
    /\ nAttempts' = nAttempts + 1
    /\ cpc' = "start"
    /\ cClosed' = FALSE
    /\ waitBuf' = "empty"
    /\ hstream' = FALSE
    /\ framesIn' = 0
    /\ retryElapsed' = -1
    /\ hpc' = "innerSel"
    /\ UNCHANGED <<hcancelled, hCloseCalled, nSetReady, nSetNotReady,
                   framesFwd, hObserved, hWgDone, hlsRest>>

\* runInner: the select over c.Wait() and s.ctx.Done(): one of the ready
\* cases, or the supervisor parks
hlsRunInner_select ==
    /\ hpc = "innerSel"
    /\ \/ /\ waitBuf = "err"
          /\ hpc' = "innerGotWait"
          /\ UNCHANGED hObserved
       \/ /\ hcancelled
          /\ hpc' = "innerGotDone"
          /\ hObserved' = [hObserved EXCEPT !.attempts = nAttempts, !.client = cpc]
       \/ /\ waitBuf = "empty" /\ ~hcancelled
          /\ hpc' = "innerParked"
          /\ UNCHANGED hObserved
    /\ UNCHANGED <<hcancelled, hCloseCalled, nAttempts, cpc, cClosed,
                   waitBuf, retryElapsed, hstream, nSetReady, nSetNotReady,
                   framesIn, framesFwd, hWgDone, hlsRest>>

\* runInner: case err := <-c.Wait(): return true, after the deferred function
hlsRunInner_clientErr ==
    /\ hpc = "innerGotWait"
    /\ waitBuf' = "empty"
    /\ nSetNotReady' = DeferredNotReady
    /\ hpc' = "pauseSel"
    /\ UNCHANGED <<hcancelled, hCloseCalled, nAttempts, cpc, cClosed,
                   retryElapsed, hstream, nSetReady, framesIn, framesFwd,
                   hObserved, hWgDone, hlsRest>>

\* mutant: the ctx.Done case does not close the client
hlsRunInner_ctxDone_NoClose ==
    /\ hpc = "innerGotDone"
    /\ hpc' = "innerWaitClose"
    /\ UNCHANGED <<cClosed, hcancelled, hCloseCalled, nAttempts, cpc, waitBuf,
                   retryElapsed, hstream, nSetReady, nSetNotReady, framesIn,
                   framesFwd, hObserved, hWgDone, hlsRest>>

\* runInner: case <-s.ctx.Done(): c.Close()
hlsRunInner_ctxDone ==
    /\ hpc = "innerGotDone"
    /\ cClosed' = TRUE
    /\ hpc' = "innerWaitClose"
    /\ UNCHANGED <<hcancelled, hCloseCalled, nAttempts, cpc, waitBuf,
                   retryElapsed, hstream, nSetReady, nSetNotReady, framesIn,
                   framesFwd, hObserved, hWgDone, hlsRest>>

\* runInner: <-c.Wait() after c.Close(): return false, after the deferred
\* function; run leaves the loop
hlsRunInner_waitClose ==
    /\ hpc = "innerWaitClose"
    /\ waitBuf = "err"
    /\ waitBuf' = "empty"
    /\ nSetNotReady' = DeferredNotReady
    /\ hpc' = "ctxCancel"
    /\ UNCHANGED <<hcancelled, hCloseCalled, nAttempts, cpc, cClosed,
                   retryElapsed, hstream, nSetReady, framesIn, framesFwd,
                   hObserved, hWgDone, hlsRest>>

\* mutant: the next attempt starts without the pause
hlsRun_select_NoPause ==
    /\ hpc = "pauseSel"
    /\ retryElapsed' = 0
    /\ IF hcancelled
         THEN /\ hpc' = "ctxCancel"
              /\ hObserved' = [hObserved EXCEPT !.attempts = nAttempts, !.client = cpc]
         ELSE /\ hpc' = "runInner"
              /\ UNCHANGED hObserved
    /\ UNCHANGED <<hcancelled, hCloseCalled, nAttempts, cpc, cClosed,
                   waitBuf, hstream, nSetReady, nSetNotReady, framesIn,
                   framesFwd, hWgDone, hlsRest>>

\* run: the select over time.After(retryPause) and s.ctx.Done(): the timer
\* is armed; ctx.Done is taken if it is ready, else the supervisor parks
hlsRun_select ==
    /\ hpc = "pauseSel"
    /\ retryElapsed' = 0
    /\ IF hcancelled
         THEN /\ hpc' = "ctxCancel"
              /\ hObserved' = [hObserved EXCEPT !.attempts = nAttempts, !.client = cpc]
         ELSE /\ hpc' = "pauseParked"
              /\ UNCHANGED hObserved
    /\ UNCHANGED <<hcancelled, hCloseCalled, nAttempts, cpc, cClosed,
                   waitBuf, hstream, nSetReady, nSetNotReady, framesIn,
                   framesFwd, hWgDone, hlsRest>>

\* the clock advances while the supervisor is parked in the select of run;
\* when retryPause has elapsed the timer case fires and the loop continues
hlsRun_timer ==
    /\ hpc = "pauseParked"
    /\ retryElapsed < RetryPause
    /\ retryElapsed' = retryElapsed + 1
    /\ hpc' = IF retryElapsed + 1 >= RetryPause THEN "runInner" ELSE hpc
    /\ UNCHANGED <<hcancelled, hCloseCalled, nAttempts, cpc, cClosed,
                   waitBuf, hstream, nSetReady, nSetNotReady, framesIn,
                   framesFwd, hObserved, hWgDone, hlsRest>>

\* run: s.ctxCancel() after the loop
hlsRun_ctxCancel ==
    /\ hpc = "ctxCancel"
    /\ hcancelled' = TRUE
    /\ hpc' = "wgDone"
    /\ UNCHANGED <<hCloseCalled, nAttempts, cpc, cClosed, waitBuf,
                   retryElapsed, hstream, nSetReady, nSetNotReady, framesIn,
                   framesFwd, hObserved, hWgDone, hlsRest>>

\* run: the deferred s.wg.Done()
hlsRun_wgDone ==
    /\ hpc = "wgDone"
    /\ hWgDone' = hWgDone + 1
    /\ hpc' = "done"
    /\ UNCHANGED <<hcancelled, hCloseCalled, nAttempts, cpc, cClosed,
                   waitBuf, retryElapsed, hstream, nSetReady, nSetNotReady,
                   framesIn, framesFwd, hObserved, hlsRest>>

\* the client calls onTracks: OnSourceStaticSetReady answers with an error,
\* which ends the client, or with the stream (the last client the bound
\* allows does not end by itself)
hlsClient_onTracks ==
    /\ cpc = "start"
    /\ \E res \in IF nAttempts < MaxAttempts THEN {"ok", "err"} ELSE {"ok"} :
          IF res = "err"
            THEN /\ cpc' = "ended"
                 /\ waitBuf' = "err"
                 /\ hpc' = ClientEnded(hpc)
                 /\ UNCHANGED <<hstream, nSetReady>>
            ELSE /\ cpc' = "streaming"
                 /\ hstream' = TRUE
                 /\ nSetReady' = nSetReady + 1
                 /\ UNCHANGED <<waitBuf, hpc>>
    /\ UNCHANGED <<hcancelled, hCloseCalled, nAttempts, cClosed,
                   retryElapsed, nSetNotReady, framesIn, framesFwd,
                   hObserved, hWgDone, hlsRest>>

\* mutant: onFrame forwards the frame without looking at stream
hlsClient_onFrame_NoCheck ==
    /\ cpc \in {"start", "streaming"}
    /\ framesIn < MaxFrames
    /\ framesIn' = framesIn + 1
    /\ framesFwd' = framesFwd + 1
    /\ UNCHANGED <<hpc, hcancelled, hCloseCalled, nAttempts, cpc, cClosed,
                   waitBuf, retryElapsed, hstream, nSetReady, nSetNotReady,
                   hObserved, hWgDone, hlsRest>>

\* the client calls onFrame: the frame is forwarded iff stream is not nil
hlsClient_onFrame ==
    /\ cpc \in {"start", "streaming"}
    /\ framesIn < MaxFrames
    /\ framesIn' = framesIn + 1
    /\ framesFwd' = IF hstream THEN framesFwd + 1 ELSE framesFwd
    /\ UNCHANGED <<hpc, hcancelled, hCloseCalled, nAttempts, cpc, cClosed,
                   waitBuf, retryElapsed, hstream, nSetReady, nSetNotReady,
                   hObserved, hWgDone, hlsRest>>

\* the upstream fails or ends: the client ends by itself
hlsClient_fail ==
    /\ cpc \in {"start", "streaming"}
    /\ nAttempts < MaxAttempts
    /\ cpc' = "ended"
    /\ waitBuf' = "err"
    /\ hpc' = ClientEnded(hpc)
    /\ UNCHANGED <<hcancelled, hCloseCalled, nAttempts, cClosed,
                   retryElapsed, hstream, nSetReady, nSetNotReady, framesIn,
                   framesFwd, hObserved, hWgDone, hlsRest>>

\* the client ends because c.Close() was called
hlsClient_closed ==
    /\ cpc \in {"start", "streaming"}
    /\ cClosed
    /\ cpc' = "ended"
    /\ waitBuf' = "err"
    /\ UNCHANGED <<hpc, hcancelled, hCloseCalled, nAttempts, cClosed,
                   retryElapsed, hstream, nSetReady, nSetNotReady, framesIn,
                   framesFwd, hObserved, hWgDone, hlsRest>>

HlsNext ==
    \/ hlsSource_Close
    \/ hlsRun_runInner
    \/ hlsRunInner_select
    \/ hlsRunInner_clientErr
    \/ hlsRunInner_ctxDone
    \/ hlsRunInner_waitClose
    \/ hlsRun_select
    \/ hlsRun_timer
    \/ hlsRun_ctxCancel
    \/ hlsRun_wgDone
    \/ hlsClient_onTracks
    \/ hlsClient_onFrame
    \/ hlsClient_fail
    \/ hlsClient_closed

HlsSpec == Idle /\ [][HlsNext]_vars

\* Fairness: the supervisor goroutine takes its steps, the clock advances,
\* and a closed client ends (no fairness for Close or for upstream events).
HlsSupervisorStep ==
    \/ hlsRun_runInner \/ hlsRunInner_select \/ hlsRunInner_clientErr
    \/ hlsRunInner_ctxDone \/ hlsRunInner_waitClose \/ hlsRun_select
    \/ hlsRun_ctxCancel \/ hlsRun_wgDone

HlsFairness ==
    /\ WF_vars(HlsSupervisorStep)
    /\ WF_vars(hlsRun_timer)
    /\ WF_vars(hlsClient_closed)

HlsFairSpec == Idle /\ [][HlsNext]_vars /\ HlsFairness


\* C14: the supervisor never leaves its loop because of an upstream error,
\* only after Close() / cancellation; and every attempt but the first starts
\* only after retryPause has elapsed since the previous attempt ended.
C14_RetryPauseBetweenAttempts ==
    /\ [](hpc \in HlsExited => hCloseCalled)
    /\ [][(nAttempts' = nAttempts + 1 /\ nAttempts >= 1)
             => retryElapsed >= RetryPause]_vars

\* a second attempt is running, after the first one failed and the pause
\* elapsed, and no cancellation happened
C14_Witness ==
    /\ nAttempts = 2
    /\ cpc = "streaming"
    /\ nSetNotReady = 1
    /\ ~hcancelled

\* C15 as stated: a client that was in flight when Close() was called has
\* been closed by the supervisor when the supervisor has left its loop.
C15_Original ==
    (hpc \in HlsExited /\ hObserved.atClose \in {"start", "streaming"})
        => cClosed

\* C15 (state part): wg.Done is called once at most and has been called when
\* run has returned; when the supervisor has left its loop the client has
\* ended and its Wait() result was received; a client that was in flight
\* when the supervisor took the ctx.Done case was closed; no client is
\* created after the supervisor took the ctx.Done case.
C15_State ==
    /\ hWgDone <= 1
    /\ hpc = "done" => hWgDone = 1
    /\ hpc \in HlsExited =>
          /\ cpc = "ended"
          /\ waitBuf = "empty"
          /\ hObserved.client \in {"start", "streaming"} => cClosed
    /\ hObserved.attempts # -1 => nAttempts = hObserved.attempts

\* C15: after Close() (or cancellation of the context) the supervisor
\* eventually returns, having called wg.Done exactly once; a client in
\* flight when the supervisor takes the ctx.Done case is closed and its
\* Wait() result received before the supervisor returns, a client that ended
\* by itself before that has had its Wait() result received; no client is
\* created after the cancellation was observed.
C15_ExitsAfterClose ==
    /\ []C15_State
    /\ (hcancelled ~> hpc = "done")

\* the supervisor has returned after closing a client that was streaming
\* when Close() was called
C15_Witness ==
    /\ hpc = "done"
    /\ hWgDone = 1
    /\ cClosed
    /\ hObserved.client = "streaming"


\* ====================================================================== *
\* Recorder agent.  The agent consumes the units written to the stream and *
\* hands them to its segmenter; the test drives it with Initialize, units  *
\* (one of which makes the write fail) and Close.                          *
\* ====================================================================== *

recRest == <<connVars, streamVars, hlsVars>>

\* the open segment is flushed and renamed to its final name, then
\* OnSegmentComplete is called
Finalized(ev) == IF segOpen # 0 THEN Append(ev, <<"complete", segOpen>>) ELSE ev
FinalFiles == IF segOpen # 0 THEN [segFile EXCEPT ![segOpen] = "final"] ELSE segFile

\* mutant: a write error drops the open segment without finalizing it
rec_WriteError_NoFinalize ==
    /\ rcpc = "running"
    /\ Len(unitLog) < MaxRecUnits
    /\ unitLog' = Append(unitLog, [gen |-> recGen, ra |-> TRUE, fail |-> TRUE, seg |-> 0])
    /\ segOpen' = 0
    /\ rcpc' = "pause"
    /\ restartElapsed' = 0
    /\ UNCHANGED <<segEvents, segFile, recGen, nSegs, segStart, recPTS, recRest>>

\* a unit whose write fails: the segmenter is torn down, the open segment is
\* finalized, restartPause starts
rec_WriteError ==
    /\ rcpc = "running"
    /\ Len(unitLog) < MaxRecUnits
    /\ unitLog' = Append(unitLog, [gen |-> recGen, ra |-> TRUE, fail |-> TRUE, seg |-> 0])
    /\ segEvents' = Finalized(segEvents)
    /\ segFile' = FinalFiles
    /\ segOpen' = 0
    /\ rcpc' = "pause"
    /\ restartElapsed' = 0
    /\ UNCHANGED <<recGen, nSegs, segStart, recPTS, recRest>>

\* a unit written while the segmenter runs: a random-access unit opens a
\* segment when none is open or when SegmentDuration has elapsed since the
\* start of the open one (which is finalized first); any other unit goes to
\* the open segment, or is dropped when there is none
rec_WriteUnit ==
    /\ rcpc = "running"
    /\ Len(unitLog) < MaxRecUnits
    /\ \E ra \in BOOLEAN, dpts \in {0, 1} :
          LET pts == recPTS + dpts
              cut == ra /\ (segOpen = 0 \/ pts - segStart >= SegmentDuration)
          IN  /\ recPTS' = pts
              /\ IF cut
                   THEN /\ nSegs' = nSegs + 1
                        /\ segOpen' = nSegs + 1
                        /\ segStart' = pts
                        /\ segEvents' = Append(Finalized(segEvents),
                                               <<"create", nSegs + 1>>)
                        /\ segFile' = Append(FinalFiles, "partial")
                   ELSE UNCHANGED <<nSegs, segOpen, segStart, segEvents, segFile>>
              /\ unitLog' = Append(unitLog,
                     [gen |-> recGen, ra |-> ra, fail |-> FALSE,
                      seg |-> IF cut THEN nSegs + 1 ELSE segOpen])
    /\ UNCHANGED <<rcpc, recGen, restartElapsed, recRest>>

\* a unit written while the segmenter is torn down is not recorded
rec_WriteUnitPaused ==
    /\ rcpc = "pause"
    /\ Len(unitLog) < MaxRecUnits
    /\ \E ra \in BOOLEAN :
          unitLog' = Append(unitLog, [gen |-> 0, ra |-> ra, fail |-> FALSE, seg |-> 0])
    /\ UNCHANGED <<rcpc, recGen, segOpen, nSegs, segStart, recPTS, segEvents,
                   segFile, restartElapsed, recRest>>

\* the clock advances during restartPause
rec_Tick ==
    /\ rcpc = "pause"
    /\ restartElapsed < restartPause
    /\ restartElapsed' = restartElapsed + 1
    /\ UNCHANGED <<rcpc, recGen, segOpen, nSegs, segStart, recPTS, segEvents,
                   segFile, unitLog, recRest>>

\* restartPause has elapsed: the segmenter is re-initialized
rec_Restart ==
    /\ rcpc = "pause"
    /\ restartElapsed >= restartPause
    /\ rcpc' = "running"
    /\ recGen' = recGen + 1
    /\ restartElapsed' = -1
    /\ UNCHANGED <<segOpen, nSegs, segStart, recPTS, segEvents, segFile,
                   unitLog, recRest>>

\* mutant: Close does not finalize the open segment
rec_Close_NoFinalize ==
    /\ rcpc \in {"running", "pause"}
    /\ rcpc' = "closed"
    /\ segOpen' = 0
    /\ UNCHANGED <<segEvents, segFile, recGen, nSegs, segStart, recPTS,
                   unitLog, restartElapsed, recRest>>

\* Agent.Close(): the open segment is finalized
rec_Close ==
    /\ rcpc \in {"running", "pause"}
    /\ rcpc' = "closed"
    /\ segEvents' = Finalized(segEvents)
    /\ segFile' = FinalFiles
    /\ segOpen' = 0
    /\ UNCHANGED <<recGen, nSegs, segStart, recPTS, unitLog, restartElapsed,
                   recRest>>

\* forced close: the agent stops where it is; the open segment keeps its
\* partial file and gets no OnSegmentComplete
rec_ForcedClose ==
    /\ rcpc \in {"running", "pause"}
    /\ rcpc' = "killed"
    /\ UNCHANGED <<recGen, segOpen, nSegs, segStart, recPTS, segEvents,
                   segFile, unitLog, restartElapsed, recRest>>

RecNext ==
    \/ rec_WriteError
    \/ rec_WriteUnit
    \/ rec_WriteUnitPaused
    \/ rec_Tick
    \/ rec_Restart
    \/ rec_Close
    \/ rec_ForcedClose

RecSpec == Idle /\ [][RecNext]_vars

\* Fairness: the clock advances and the restart is carried out.
RecFairness == WF_vars(rec_Tick) /\ WF_vars(rec_Restart)

RecFairSpec == Idle /\ [][RecNext]_vars /\ RecFairness

\* positions in segEvents of the calls for segment n
Creates(n) == {i \in 1..Len(segEvents) : segEvents[i] = <<"create", n>>}
Completes(n) == {i \in 1..Len(segEvents) : segEvents[i] = <<"complete", n>>}

\* C16: every segment gets one OnSegmentCreate; its OnSegmentComplete comes
\* once at most and after the create; a created segment without a complete
\* is the open one, and there is none after a segment boundary, a write
\* error or Close(): only a forced close leaves a segment without complete.
C16_CreateThenComplete ==
    /\ \A n \in 1..nSegs :
          /\ Cardinality(Creates(n)) = 1
          /\ Cardinality(Completes(n)) <= 1
          /\ \A i \in Completes(n) : \E j \in Creates(n) : j < i
          /\ Completes(n) = {} => n = segOpen
    /\ rcpc \in {"pause", "closed"} => segOpen = 0

\* segments were completed by a boundary, by a write error and by Close
C16_Witness ==
    /\ rcpc = "closed"
    /\ nSegs = 3
    /\ Len(segEvents) = 6
    /\ \E i \in 1..Len(unitLog) : unitLog[i].fail

\* the last segment number used before generation g of the segmenter
SegsBefore(g) ==
    LET S == {unitLog[i].seg : i \in {j \in 1..Len(unitLog) :
                                        unitLog[j].gen # 0 /\ unitLog[j].gen < g}}
    IN  IF S = {} THEN 0 ELSE CHOOSE m \in S : \A x \in S : x <= m

\* C17 (state part): after a write error the segmenter is down with no open
\* segment, every segment created so far has its OnSegmentComplete and its
\* final name; a random-access unit written after the restart is recorded,
\* and every unit recorded after a restart is in a segment created after it.
C17_State ==
    /\ rcpc = "pause" =>
          /\ segOpen = 0
          /\ \A n \in 1..nSegs : Completes(n) # {} /\ segFile[n] = "final"
    /\ \A i \in 1..Len(unitLog) :
          LET u == unitLog[i]
          IN  /\ (u.gen >= 1 /\ u.ra /\ ~u.fail) => u.seg # 0
              /\ (u.gen >= 2 /\ u.seg # 0) => u.seg > SegsBefore(u.gen)

\* C17: a write error tears the segmenter down with its open segment
\* finalized; after restartPause the recorder runs again (or was closed) and
\* records the units written afterwards into new segments.
C17_RestartAfterWriteError ==
    /\ []C17_State
    /\ (rcpc = "pause" ~> rcpc # "pause")

\* a unit written after the restart that followed a write error was recorded
\* into a new segment
C17_Witness ==
    \E i, j \in 1..Len(unitLog) :
        /\ i < j
        /\ unitLog[i].fail
        /\ unitLog[i].gen = 1
        /\ unitLog[j].gen = 2
        /\ unitLog[j].seg = 2
        /\ segFile[1] = "final"


\* positions of the supervisor inside an attempt: from hls.NewClient to the
\* return of runInner
InAttempt ==
    {"innerSel", "innerParked", "innerGotWait", "innerGotDone", "innerWaitClose"}

\* the source is ready: OnSourceStaticSetReady has succeeded in the current
\* attempt and OnSourceStaticSetNotReady was not called since
HlsReady == hpc \in InAttempt /\ hstream /\ nSetReady = nSetNotReady + 1

\* C22 (state part): inside an attempt there is one successful SetReady more
\* than SetNotReady calls iff SetReady has succeeded in it; between attempts
\* and after the supervisor has left its loop the two numbers are equal.
C22_State ==
    /\ hpc \in InAttempt =>
          nSetReady = nSetNotReady + (IF hstream THEN 1 ELSE 0)
    /\ hpc \notin InAttempt => nSetReady = nSetNotReady

\* C22 (step part): SetNotReady is called only at the end of an attempt in
\* which SetReady succeeded, once; an attempt in which it did not succeed
\* ends without the call; SetReady succeeds only when every earlier success
\* has had its SetNotReady.
C22_Step ==
    /\ (hpc \in InAttempt /\ hpc' \notin InAttempt) =>
          nSetNotReady' = nSetNotReady + (IF hstream THEN 1 ELSE 0)
    /\ nSetNotReady' # nSetNotReady =>
          (hpc \in InAttempt /\ hpc' \notin InAttempt)
    /\ nSetReady' # nSetReady =>
          (nSetReady = nSetNotReady /\ nSetReady' = nSetReady + 1)

\* C22: ready and not-ready notifications are paired per attempt.
C22_ReadyPaired ==
    /\ []C22_State
    /\ [][C22_Step]_vars

\* the supervisor has returned after three attempts, two of which became
\* ready and one of which did not
C22_Witness ==
    /\ hpc = "done"
    /\ nAttempts = 3
    /\ nSetReady = 2
    /\ nSetNotReady = 2

C24_DeliveredWasProcessed ==
    \A r \in NonRTSP : data \in Received(r) => hasNonRTSP


\* C25: once stream.close() has returned, no later operation on the reader
\* map faults and none has an effect: the map stays without readers, so
\* hasReaders() is false and writeData finds no reader to deliver to.
C25_SafeAfterClose ==
    clpc = "closed" =>
        /\ ~panicked
        /\ ma = {}
        /\ swpc = "loop" => (snap = {} \/ visited = snap)

====
